---- MODULE Spec2Model ----
(***************************************************************************)
(* Model of the currency-conversion and ledger core of TripExpenseTracker  *)
(* (src/app.js).  The IndexedDB stores are the variables; every handler is *)
(* one action that runs the handler to completion; the handlers whose      *)
(* overlap matters are also given await by await.                          *)
(*                                                                         *)
(* Encodings                                                               *)
(*   dates      ISO 'YYYY-MM-DD' strings are day numbers 1..n; new Date(.) *)
(*              is monotone in the day number, so <= on day numbers is the *)
(*              code's comparison of getTime() values.                     *)
(*   null       JS null/undefined is Null (-1); a missing rates[cur] is 0  *)
(*              (the code only ever tests rates[cur] for truthiness).      *)
(*   decimals   a decimal rate string is the integer rate * 10^7, a        *)
(*              decimal amount string is the integer amount * 1000, and    *)
(*              ccFeePercent is kept in hundredths of a percent.           *)
(*   last       the most recent call: its arguments, outcome and result.   *)
(*   inflight   the async calls suspended at an await, with their locals.  *)
(*   backup     the stores of the last exported backup file.               *)
(*   tripNames  the name of every record of the trips store.               *)
(*                                                                         *)
(* Specifications                                                          *)
(*   SpecRate    getOrFetchRate calls against the fxRates cache            *)
(*   SpecFetch   fetchAndCacheRate calls, the storage failing or not       *)
(*   Spec        the ledger: settings, cash batches, cash and credit       *)
(*               expenses added, edited and deleted, going on and offline  *)
(*   SpecCash    cash batches and cash expenses                            *)
(*   SpecCredit  credit expenses, pending ones and syncPendingExpenses     *)
(*   SpecPick    pickCashBatchFor over the batches of two trips            *)
(*   SpecBatch   cash batches added and deleted while cash expenses of two *)
(*               trips name them                                           *)
(*   SpecBatchEdit  the same on one trip, with the batch edit form         *)
(*   SpecSync    syncPendingExpenses with the storage failing or not       *)
(*   SpecLive    startup and the online event, the online event under weak *)
(*               fairness                                                  *)
(*   SpecOverlap syncPendingExpenses passes that overlap, await by await   *)
(*   SpecConvert convertBaseToTargetCents calls                            *)
(*   SpecPage    render() over credit expenses of up to two categories     *)
(*   SpecFrame   render() and conversions between ledger and settings steps*)
(*   SpecHome    getOrFetchRate calls while the home currency changes      *)
(*   SpecCategory  categories of two trips added and renamed               *)
(*   SpecDelete  categories deleted while expenses name them               *)
(*   SpecRace    category requests that overlap, await by await            *)
(*   SpecSettings  the settings form, loadSettings and normalizeSettings   *)
(*   SpecCache   the fxRates cache across ledger steps, trip deletion and  *)
(*               imports of the exported backup                            *)
(*   SpecInput   names and amounts typed into the forms and prompts        *)
(*   SpecTrips   two trips created, selected and deleted with their records*)
(*   SpecActive  the active trip across later visits, deletion and imports *)
(*   SpecEdit    updateExpense on stored and missing expenses              *)
(*   SpecFlight  a syncPendingExpenses pass, await by await, beside edits, *)
(*               deletions and trip switches                               *)
(*   SpecSuspend addExpense for cash, await by await, beside trip switches *)
(***************************************************************************)
EXTENDS Integers, Sequences, FiniteSets, TLC

VARIABLES trips, activeTripId, settings, categories, cashBatches, fxRates,
          expenses, usedIds, online, last, inflight, backup, tripNames

vars == <<trips, activeTripId, settings, categories, cashBatches, fxRates,
          expenses, usedIds, online, last, inflight, backup, tripNames>>

\* ---------------------------------------------------------------- bounds
MaxTrips == 2
MaxDate == 2
MaxExpenses == 2
MaxBatches == 2
MaxLedgerExpenses == 1
MaxLedgerBatches == 1
MaxRateDate == 4
MaxRows == 3
MaxPickDate == 3

\* ------------------------------------------------------------- constants
PPM == 1000000
Null == -1
NaN == -2
NoDate == 0
RateScale == 10000000
AmountScale == 1000
FeeScale == 10000
DefaultFee == 250

Currencies == {"CAD", "EUR", "USD"}
Methods == {"cash", "credit"}

\* ------------------------------------------------------- Money helpers
\* Math.round(num / den) for an even den > 0: the nearest integer, halves
\* upwards (floor(x + 1/2)).  Every divisor used below is even.
Round(num, den) == (num + den \div 2) \div den

\* toCents: Math.round(Number(n) * 100), n given in thousandths.
\* An amount that is not a number (NaN) stays one.
ToCents(amountLocal) ==
    IF amountLocal = NaN THEN NaN ELSE Round(amountLocal, AmountScale \div 100)

\* rateToPpm: Math.round(Number(rateStr) * PPM), rateStr given times 10^7.
RateToPpm(rate) == Round(rate, RateScale \div PPM)

\* applyFeePpm: Math.round(ppm * (1 + feePercent / 100)), which for the
\* integer ppm is ppm + Math.round(ppm * feePercent / 100).
ApplyFeePpm(ppm, feePercent) == ppm + Round(ppm * feePercent, FeeScale)

\* String.prototype.toUpperCase on the currency codes the forms can hold.
ToUpperCase(s) ==
    CASE s = "cad" -> "CAD"
      [] s = "eur" -> "EUR"
      [] s = "usd" -> "USD"
      [] OTHER -> s

SetMax(S) == CHOOSE x \in S : \A y \in S : y <= x
SetMin(S) == CHOOSE x \in S : \A y \in S : x <= y

\* ------------------------------------------------------------ Settings
\* normalizeSettings: the stored record laid over the defaults
\* (Object.assign); a record without a tripCurrencies list gets the
\* legacy tripCurrency, upper cased, or 'EUR'; the home currency is upper
\* cased, 'CAD' for an empty one; the list is upper cased, its empty
\* entries dropped, and [homeCurrency] stands in for an empty list.
\* NoSettings: no record under the key.
NoSettings == <<>>
DefaultSettings == [homeCurrency |-> "CAD", ccFeePercent |-> DefaultFee]

NormalizeSettings(raw) ==
    LET Stored(k) == IF k \in DOMAIN raw THEN raw[k] ELSE DefaultSettings[k]
        isArray == "tripCurrencies" \in DOMAIN raw
        legacy == "tripCurrency" \in DOMAIN raw /\ raw.tripCurrency # ""
        listed == IF isArray THEN raw.tripCurrencies
                  ELSE IF legacy THEN <<ToUpperCase(raw.tripCurrency)>>
                  ELSE <<"EUR">>
        home == IF Stored("homeCurrency") = "" THEN "CAD"
                ELSE ToUpperCase(Stored("homeCurrency"))
        upper == SelectSeq([i \in 1..Len(listed) |-> ToUpperCase(listed[i])],
                           LAMBDA c : c # "")
        s == [homeCurrency |-> home,
              ccFeePercent |-> Stored("ccFeePercent"),
              tripCurrencies |-> IF upper = <<>> THEN <<home>> ELSE upper]
    IN IF "tripCurrency" \in DOMAIN raw /\ (isArray \/ ~legacy)
       THEN [tripCurrency |-> raw.tripCurrency] @@ s
       ELSE s

\* loadSettings: the active trip's record 'trip:<activeTripId>', normalized.
LoadSettings ==
    NormalizeSettings(IF activeTripId \in DOMAIN settings
                      THEN settings[activeTripId] ELSE NoSettings)

\* The text of a settings field, character by character.
UpperChar(c) ==
    CASE c = "a" -> "A" [] c = "c" -> "C" [] c = "d" -> "D" [] c = "e" -> "E"
      [] c = "o" -> "O" [] c = "r" -> "R" [] c = "s" -> "S" [] c = "u" -> "U"
      [] OTHER -> c

\* String.prototype.trim, toUpperCase and split(',') on such a text.
RECURSIVE TrimText(_)
TrimText(t) ==
    IF t = <<>> THEN t
    ELSE IF Head(t) = " " THEN TrimText(Tail(t))
    ELSE IF t[Len(t)] = " " THEN TrimText(SubSeq(t, 1, Len(t) - 1))
    ELSE t

ToUpperCaseText(t) == [i \in 1..Len(t) |-> UpperChar(t[i])]

RECURSIVE Split(_, _)
Split(t, sep) ==
    IF t = <<>> THEN << <<>> >>
    ELSE \* the pieces of the rest of the text, split once
         LET Pieces(rest) == IF Head(t) = sep THEN << <<>> >> \o rest
                             ELSE << <<Head(t)>> \o Head(rest) >> \o Tail(rest)
         IN CHOOSE p \in {Pieces(rest) : rest \in {Split(Tail(t), sep)}} : TRUE

\* The string that the characters spell.
RECURSIVE TextString(_)
TextString(t) == IF t = <<>> THEN "" ELSE Head(t) \o TextString(Tail(t))

\* Array.from(new Set(list)): the first occurrence of every element.
RECURSIVE Unique(_)
Unique(list) ==
    IF list = <<>> THEN <<>>
    ELSE LET n == Len(list)
         IN CHOOSE u \in {IF \E i \in 1..Len(init) : init[i] = list[n]
                          THEN init ELSE Append(init, list[n]) :
                          init \in {Unique(SubSeq(list, 1, n - 1))}} : TRUE

\* ------------------------------------------------------------ FX rates
NoRates == [c \in Currencies |-> 0]
NoRate == [ppm |-> Null, source |-> "none"]
Identity == [ppm |-> PPM, source |-> "identity"]

UpsertFxRateFreshRow(fx, home, dateStr, currency, ratePpm) ==
    [d \in (DOMAIN fx) \cup {dateStr} |->
        IF d = dateStr
        THEN [base |-> home, rates |-> [NoRates EXCEPT ![currency] = ratePpm]]
        ELSE fx[d]]

\* upsertFxRate: the row keyed dateStr (created with the current home
\* currency as base when absent) gets rates[currency] = ratePpm.
UpsertFxRate(fx, home, dateStr, currency, ratePpm) ==
    LET row == IF dateStr \in DOMAIN fx THEN fx[dateStr]
               ELSE [base |-> home, rates |-> NoRates]
        put == [row EXCEPT !.rates[currency] = ratePpm]
    IN [d \in (DOMAIN fx) \cup {dateStr} |-> IF d = dateStr THEN put ELSE fx[d]]

\* getFxRatePpmExact: rates[currency] of the row keyed dateStr, else null.
GetFxRatePpmExact(fx, dateStr, currency) ==
    IF dateStr \in DOMAIN fx /\ fx[dateStr].rates[currency] # 0
    THEN fx[dateStr].rates[currency]
    ELSE Null

GetFxRowNearest(fx, dateStr, currency) ==
    LET all == DOMAIN fx
        ge == {d \in all : d >= dateStr}
    IN IF all = {} THEN Null
       ELSE IF ge # {} THEN SetMin(ge) ELSE SetMax(all)

\* getFxRowAtOrBefore: rows sorted by date descending; the first one dated
\* on or before dateStr, else the last (oldest) one; null for an empty
\* cache.  The result is the key of the row.  The currency is not looked at.
GetFxRowAtOrBefore(fx, dateStr, currency) ==
    LET all == DOMAIN fx
        le == {d \in all : d <= dateStr}
    IN IF all = {} THEN Null
       ELSE IF dateStr = NoDate THEN SetMax(all)
       ELSE IF le # {} THEN SetMax(le) ELSE SetMin(all)

\* The provider's answer to GET /<date>?from=..&to=..: a network error, a
\* non-2xx status, an unparsable body, a body without rates[to], or
\* {date, rates} for the requested day or, when that day has no quote (a
\* weekend, a holiday), the day before.  Historical rates are facts: the
\* rate is a function of the reported date and the currency pair.
Quote(from, to) ==
    CASE from = "EUR" /\ to = "CAD" -> 14500000
      [] from = "USD" /\ to = "CAD" -> 13500000
      [] from = "CAD" /\ to = "EUR" -> 6896551
      [] from = "USD" /\ to = "EUR" -> 9310344
      [] from = "CAD" /\ to = "USD" -> 7407407
      [] from = "EUR" /\ to = "USD" -> 10740741
      [] OTHER -> RateScale

ProviderRate(date, from, to) == Quote(from, to) + (date - 1) * 100003

Failures == {[kind |-> k, date |-> NoDate, rate |-> 0] :
                k \in {"netError", "httpError", "badJson", "noRate"}}
NetError == [kind |-> "netError", date |-> NoDate, rate |-> 0]

ProviderResponses(dateStr, from, to) ==
    Failures \cup
    {[kind |-> "ok", date |-> d, rate |-> ProviderRate(d, from, to)] :
        d \in {x \in {dateStr - 1, dateStr} : x >= 1}}

\* What the device can get: offline every request is a network error.
Responses(dateStr, currency) ==
    IF online
    THEN ProviderResponses(dateStr, ToUpperCase(currency), LoadSettings.homeCurrency)
    ELSE {NetError}

\* The body of fetchAndCacheRate's try block.  raised = an exception left
\* the block; steps lists the provider call and the fxRates accesses made.
FetchTry(fx, dateStr, currency, resp, io) ==
    IF io = "settingsFail"
    THEN [raised |-> TRUE, result |-> NoRate, fx |-> fx, steps |-> <<>>]
    ELSE
    LET to == ToUpperCase(LoadSettings.homeCurrency)
        from == ToUpperCase(currency)
    IN IF from = to
       THEN IF io = "putFail"
            THEN [raised |-> TRUE, result |-> NoRate, fx |-> fx, steps |-> <<"get">>]
            ELSE [raised |-> FALSE, result |-> Identity,
                  fx |-> UpsertFxRate(fx, LoadSettings.homeCurrency, dateStr, from, PPM),
                  steps |-> <<"get", "put">>]
       ELSE IF resp.kind \in {"netError", "badJson"}
            THEN [raised |-> TRUE, result |-> NoRate, fx |-> fx, steps |-> <<"fetch">>]
       ELSE IF resp.kind = "httpError" \/ resp.kind = "noRate" \/ resp.rate = 0
            THEN [raised |-> FALSE, result |-> NoRate, fx |-> fx, steps |-> <<"fetch">>]
       ELSE LET effectiveDate == IF resp.date = NoDate THEN dateStr ELSE resp.date
                ppm == RateToPpm(resp.rate)
            IN IF io = "putFail"
               THEN [raised |-> TRUE, result |-> NoRate, fx |-> fx,
                     steps |-> <<"fetch", "get">>]
               ELSE [raised |-> FALSE,
                     result |-> [ppm |-> ppm, source |-> "frankfurter"],
                     fx |-> UpsertFxRate(fx, LoadSettings.homeCurrency,
                                         effectiveDate, from, ppm),
                     steps |-> <<"fetch", "get", "put">>]

FetchAndCacheRateNoCatch(fx, dateStr, currency, resp, io) ==
    FetchTry(fx, dateStr, currency, resp, io)

\* catch { return null }.
CatchReturnNull(t) ==
    IF t.raised THEN [t EXCEPT !.raised = FALSE, !.result = NoRate] ELSE t

FetchAndCacheRateKeyRequested(fx, dateStr, currency, resp, io) ==
    CatchReturnNull(FetchTry(fx, dateStr, currency, [resp EXCEPT !.date = NoDate], io))

\* fetchAndCacheRate: the try block, with catch { return null }.
FetchAndCacheRate(fx, dateStr, currency, resp, io) ==
    CatchReturnNull(FetchTry(fx, dateStr, currency, resp, io))

GetOrFetchRateFetchFirst(fx, dateStr, cur, resp) ==
    LET currency == ToUpperCase(cur)
        home == ToUpperCase(LoadSettings.homeCurrency)
        fetched == FetchAndCacheRate(fx, dateStr, currency, resp, "ok")
        ppm == GetFxRatePpmExact(fx, dateStr, currency)
    IN IF fetched.result # NoRate THEN fetched
       ELSE IF ppm # Null /\ ppm # 0
            THEN [raised |-> FALSE, result |-> [ppm |-> ppm, source |-> "frankfurter"],
                  fx |-> fx, steps |-> fetched.steps \o <<"get">>]
       ELSE [raised |-> FALSE, result |-> NoRate, fx |-> fx,
             steps |-> fetched.steps \o <<"get">>]

\* getOrFetchRate: identity, then the exact cache row, then the provider,
\* then the row getFxRowAtOrBefore picks (if it holds the currency).
GetOrFetchRate(fx, dateStr, cur, resp) ==
    LET currency == ToUpperCase(cur)
        home == ToUpperCase(LoadSettings.homeCurrency)
        ppm == GetFxRatePpmExact(fx, dateStr, currency)
        fetched == FetchAndCacheRate(fx, dateStr, currency, resp, "ok")
        fxRow == GetFxRowAtOrBefore(fx, dateStr, currency)
    IN IF currency = home
       THEN [raised |-> FALSE, result |-> Identity, fx |-> fx, steps |-> <<>>]
       ELSE IF ppm # Null /\ ppm # 0
       THEN [raised |-> FALSE, result |-> [ppm |-> ppm, source |-> "frankfurter"],
             fx |-> fx, steps |-> <<"get">>]
       ELSE IF fetched.result # NoRate
       THEN [fetched EXCEPT !.steps = <<"get">> \o fetched.steps]
       ELSE IF fxRow # Null /\ fx[fxRow].rates[currency] # 0
       THEN [raised |-> FALSE,
             result |-> [ppm |-> fx[fxRow].rates[currency], source |-> "frankfurter"],
             fx |-> fx, steps |-> <<"get">> \o fetched.steps \o <<"getAll">>]
       ELSE [raised |-> FALSE, result |-> NoRate, fx |-> fx,
             steps |-> <<"get">> \o fetched.steps \o <<"getAll">>]

\* --------------------------------------------------------- Cash batches
NoBatch == [id |-> Null, tripId |-> Null, date |-> NoDate, currency |-> "",
            ratePpm |-> 0]

PickCashBatchForOldest(batches, tripId, dateStr, currency) ==
    LET candidates == {b \in batches : /\ b.tripId = tripId
                                       /\ b.currency = ToUpperCase(currency)
                                       /\ b.date <= dateStr}
        oldest == {b \in candidates : \A c \in candidates : b.date <= c.date}
    IN IF candidates = {} THEN NoBatch
       ELSE CHOOSE b \in oldest : \A c \in oldest : b.id <= c.id

\* pickCashBatchFor: the trip's batches (index byTrip, in key order) with
\* the currency and a date on or before dateStr, stably sorted by date
\* descending; the first one, or null.
PickCashBatchFor(batches, tripId, dateStr, currency) ==
    LET candidates == {b \in batches : /\ b.tripId = tripId
                                       /\ b.currency = ToUpperCase(currency)
                                       /\ b.date <= dateStr}
        newest == {b \in candidates : \A c \in candidates : c.date <= b.date}
    IN IF candidates = {} THEN NoBatch
       ELSE CHOOSE b \in newest : \A c \in newest : b.id <= c.id

DeleteCashBatchAnyway(batchId) ==
    [ok |-> TRUE, cashBatches |-> {b \in cashBatches : b.id # batchId}]

\* deleteCashBatch: false, and nothing deleted, when an expense of the
\* active trip names the batch; otherwise the batch is deleted.
DeleteCashBatch(batchId) ==
    LET exps == {e \in expenses : e.tripId = activeTripId}
        used == \E e \in exps : e.cashBatchId = batchId
    IN IF used THEN [ok |-> FALSE, cashBatches |-> cashBatches]
       ELSE [ok |-> TRUE, cashBatches |-> {b \in cashBatches : b.id # batchId}]

\* ------------------------------------------------------------- Expenses
\* What a derivation yields: the derived fields and the cache it leaves,
\* or the error it throws (steps: the rate lookups a credit derivation
\* went through before it threw).
Derived(base, ppm, source, batchId, fx) ==
    [error |-> "", baseAmountCents |-> base, fxRatePpm |-> ppm,
     fxSource |-> source, cashBatchId |-> batchId, fx |-> fx, steps |-> <<>>]
Thrown(msg, fx) ==
    [error |-> msg, baseAmountCents |-> Null, fxRatePpm |-> Null,
     fxSource |-> "", cashBatchId |-> Null, fx |-> fx, steps |-> <<>>]

ConvertFeeOnIdentity(amountLocalCents, result, fx) ==
    Derived(Round(amountLocalCents * ApplyFeePpm(result.ppm, LoadSettings.ccFeePercent), PPM),
            result.ppm, result.source, Null, fx)

ConvertStoreEffective(amountLocalCents, result, fx) ==
    LET eff == IF result.source = "identity" THEN result.ppm
               ELSE ApplyFeePpm(result.ppm, LoadSettings.ccFeePercent)
    IN Derived(Round(amountLocalCents * eff, PPM), eff, result.source, Null, fx)

\* The conversion with a resolved rate (addExpense's if (result) block):
\* the stored rate is the rate before the fee; the fee applies unless the
\* source is identity.
Convert(amountLocalCents, result, fx) ==
    LET eff == IF result.source = "identity" THEN result.ppm
               ELSE ApplyFeePpm(result.ppm, LoadSettings.ccFeePercent)
    IN Derived(Round(amountLocalCents * eff, PPM), result.ppm, result.source, Null, fx)

CashDeriveWithFee(amountLocalCents, dateStr, currency) ==
    IF currency = ToUpperCase(LoadSettings.homeCurrency)
    THEN Derived(amountLocalCents, PPM, "identity", Null, fxRates)
    ELSE LET batch == PickCashBatchFor(cashBatches, activeTripId, dateStr, currency)
         IN IF batch = NoBatch THEN Thrown("No cash batch found", fxRates)
            ELSE Derived(Round(amountLocalCents
                                 * ApplyFeePpm(batch.ratePpm, LoadSettings.ccFeePercent), PPM),
                         batch.ratePpm, "cashBatch", batch.id, fxRates)

CashDeriveDeferOffline(amountLocalCents, dateStr, currency) ==
    IF currency = ToUpperCase(LoadSettings.homeCurrency)
    THEN Derived(amountLocalCents, PPM, "identity", Null, fxRates)
    ELSE LET batch == PickCashBatchFor(cashBatches, activeTripId, dateStr, currency)
         IN IF batch = NoBatch
            THEN IF online THEN Thrown("No cash batch found", fxRates)
                 ELSE Derived(Null, Null, "pending", Null, fxRates)
            ELSE Derived(Round(amountLocalCents * batch.ratePpm, PPM),
                         batch.ratePpm, "cashBatch", batch.id, fxRates)

\* The method === 'cash' branch of addExpense.
CashDerive(amountLocalCents, dateStr, currency) ==
    IF currency = ToUpperCase(LoadSettings.homeCurrency)
    THEN Derived(amountLocalCents, PPM, "identity", Null, fxRates)
    ELSE LET batch == PickCashBatchFor(cashBatches, activeTripId, dateStr, currency)
         IN IF batch = NoBatch THEN Thrown("No cash batch found", fxRates)
            ELSE Derived(Round(amountLocalCents * batch.ratePpm, PPM),
                         batch.ratePpm, "cashBatch", batch.id, fxRates)

AddCreditDeriveBaseZero(amountLocalCents, dateStr, currency, resp1, resp2) ==
    LET g == GetOrFetchRate(fxRates, dateStr, currency, resp1)
        fetched == FetchAndCacheRate(g.fx, dateStr, currency, resp2, "ok")
        fxRow == GetFxRowAtOrBefore(fetched.fx, dateStr, currency)
    IN IF g.result # NoRate THEN Convert(amountLocalCents, g.result, g.fx)
       ELSE IF ~online THEN Derived(0, Null, "pending", Null, g.fx)
       ELSE IF fetched.result # NoRate
       THEN Convert(amountLocalCents, fetched.result, fetched.fx)
       ELSE IF fxRow # Null /\ fetched.fx[fxRow].rates[currency] # 0
       THEN Convert(amountLocalCents,
                    [ppm |-> fetched.fx[fxRow].rates[currency], source |-> "frankfurter"],
                    fetched.fx)
       ELSE [Thrown("Unable to fetch FX rate", fetched.fx)
               EXCEPT !.steps = g.steps \o fetched.steps \o <<"getAll">>]

AddCreditDeriveNoRetry(amountLocalCents, dateStr, currency, resp1, resp2) ==
    LET g == GetOrFetchRate(fxRates, dateStr, currency, resp1)
    IN IF g.result # NoRate THEN Convert(amountLocalCents, g.result, g.fx)
       ELSE IF ~online THEN Derived(Null, Null, "pending", Null, g.fx)
       ELSE [Thrown("Unable to fetch FX rate", g.fx) EXCEPT !.steps = g.steps]

\* The else branch of addExpense: getOrFetchRate; without a rate the
\* expense is pending when offline, and when online a second fetch and a
\* second look at the cached rows come before the error.
AddCreditDerive(amountLocalCents, dateStr, currency, resp1, resp2) ==
    LET g == GetOrFetchRate(fxRates, dateStr, currency, resp1)
        fetched == FetchAndCacheRate(g.fx, dateStr, currency, resp2, "ok")
        fxRow == GetFxRowAtOrBefore(fetched.fx, dateStr, currency)
    IN IF g.result # NoRate THEN Convert(amountLocalCents, g.result, g.fx)
       ELSE IF ~online THEN Derived(Null, Null, "pending", Null, g.fx)
       ELSE IF fetched.result # NoRate
       THEN Convert(amountLocalCents, fetched.result, fetched.fx)
       ELSE IF fxRow # Null /\ fetched.fx[fxRow].rates[currency] # 0
       THEN Convert(amountLocalCents,
                    [ppm |-> fetched.fx[fxRow].rates[currency], source |-> "frankfurter"],
                    fetched.fx)
       ELSE [Thrown("Unable to fetch FX rate", fetched.fx)
               EXCEPT !.steps = g.steps \o fetched.steps \o <<"getAll">>]

\* A derivation from NaN cents: the rate, the source and the batch do
\* not depend on the amount, and every product and rounding of NaN is
\* NaN, so the base amount is NaN wherever one is derived.
OfNaN(r) ==
    IF r.error = "" /\ r.baseAmountCents # Null
    THEN [r EXCEPT !.baseAmountCents = NaN] ELSE r

\* addExpense up to the put: toCents, toUpperCase, then the derivation.
AddExpenseDerive(dateStr, cur, method, amountLocal, resp1, resp2) ==
    IF ToCents(amountLocal) = NaN
    THEN OfNaN(IF method = "cash"
               THEN CashDerive(0, dateStr, ToUpperCase(cur))
               ELSE AddCreditDerive(0, dateStr, ToUpperCase(cur), resp1, resp2))
    ELSE IF method = "cash"
    THEN CashDerive(ToCents(amountLocal), dateStr, ToUpperCase(cur))
    ELSE AddCreditDerive(ToCents(amountLocal), dateStr, ToUpperCase(cur), resp1, resp2)

UpdateCreditDeriveNoFee(amountLocalCents, dateStr, currency, resp1, resp2) ==
    LET g == GetOrFetchRate(fxRates, dateStr, currency, resp1)
    IN IF g.result # NoRate
       THEN Derived(Round(amountLocalCents * g.result.ppm, PPM), g.result.ppm,
                    g.result.source, Null, g.fx)
       ELSE AddCreditDerive(amountLocalCents, dateStr, currency, resp1, resp2)

\* The method === 'cash' branch of updateExpense.
UpdateCashDerive(amountLocalCents, dateStr, currency) ==
    IF currency = ToUpperCase(LoadSettings.homeCurrency)
    THEN Derived(amountLocalCents, PPM, "identity", Null, fxRates)
    ELSE LET batch == PickCashBatchFor(cashBatches, activeTripId, dateStr, currency)
         IN IF batch = NoBatch THEN Thrown("No cash batch found", fxRates)
            ELSE Derived(Round(amountLocalCents * batch.ratePpm, PPM),
                         batch.ratePpm, "cashBatch", batch.id, fxRates)

\* The else branch of updateExpense, which repeats addExpense's.
UpdateCreditDerive(amountLocalCents, dateStr, currency, resp1, resp2) ==
    LET g == GetOrFetchRate(fxRates, dateStr, currency, resp1)
        fetched == FetchAndCacheRate(g.fx, dateStr, currency, resp2, "ok")
        fxRow == GetFxRowAtOrBefore(fetched.fx, dateStr, currency)
    IN IF g.result # NoRate THEN Convert(amountLocalCents, g.result, g.fx)
       ELSE IF ~online THEN Derived(Null, Null, "pending", Null, g.fx)
       ELSE IF fetched.result # NoRate
       THEN Convert(amountLocalCents, fetched.result, fetched.fx)
       ELSE IF fxRow # Null /\ fetched.fx[fxRow].rates[currency] # 0
       THEN Convert(amountLocalCents,
                    [ppm |-> fetched.fx[fxRow].rates[currency], source |-> "frankfurter"],
                    fetched.fx)
       ELSE [Thrown("Unable to fetch FX rate", fetched.fx)
               EXCEPT !.steps = g.steps \o fetched.steps \o <<"getAll">>]

\* updateExpense after the expense was found, up to the put.
UpdateExpenseDerive(dateStr, cur, method, amountLocal, resp1, resp2) ==
    IF method = "cash"
    THEN UpdateCashDerive(ToCents(amountLocal), dateStr, ToUpperCase(cur))
    ELSE UpdateCreditDerive(ToCents(amountLocal), dateStr, ToUpperCase(cur), resp1, resp2)

\* Whether syncPendingExpenses selects the expense.
IsPending(e) ==
    /\ e.method # "cash"
    /\ (e.fxRatePpm = Null \/ e.fxRatePpm = 0 \/ e.fxSource = "pending"
        \/ e.baseAmountCents = Null)

SyncOneKeepSource(e, result) ==
    LET eff == IF result.source = "identity" THEN result.ppm
               ELSE ApplyFeePpm(result.ppm, LoadSettings.ccFeePercent)
    IN [e EXCEPT !.fxRatePpm = result.ppm,
                 !.baseAmountCents = Round(e.amountLocalCents * eff, PPM)]

\* The body of syncPendingExpenses' loop for a resolved rate.
SyncOne(e, result) ==
    LET eff == IF result.source = "identity" THEN result.ppm
               ELSE ApplyFeePpm(result.ppm, LoadSettings.ccFeePercent)
    IN [e EXCEPT !.fxRatePpm = result.ppm,
                 !.fxSource = result.source,
                 !.baseAmountCents = Round(e.amountLocalCents * eff, PPM)]

RECURSIVE SyncLoopStopOnFailure(_, _, _, _, _)
SyncLoopStopOnFailure(pending, fx, store, resps, ios) ==
    IF pending = {} THEN [fx |-> fx, expenses |-> store, steps |-> <<>>]
    ELSE LET e == CHOOSE x \in pending : \A y \in pending : x.id <= y.id
             g == GetOrFetchRate(fx, e.date, e.currency, resps[e.id])
             rest == SyncLoopStopOnFailure(
                        pending \ {e}, g.fx,
                        {x \in store : x.id # e.id} \cup {SyncOne(e, g.result)},
                        resps, ios)
         IN IF g.result = NoRate
            THEN [fx |-> g.fx, expenses |-> store,
                  steps |-> <<"getOrFetchRate">>]
            ELSE IF ios[e.id] # "ok"
            THEN [fx |-> g.fx, expenses |-> store,
                  steps |-> <<"getOrFetchRate", "putExpenseFail">>]
            ELSE [rest EXCEPT !.steps = <<"getOrFetchRate", "putExpense">> \o @]

\* The loop of syncPendingExpenses over the selected expenses, in key
\* order: a lookup without a rate, or a put that fails inside the inner
\* try, leaves the stored record and the loop goes on; a put that succeeds
\* replaces the stored record of that id.  steps: the loop's calls.
RECURSIVE SyncLoop(_, _, _, _, _)
SyncLoop(pending, fx, store, resps, ios) ==
    IF pending = {} THEN [fx |-> fx, expenses |-> store, steps |-> <<>>]
    ELSE LET e == CHOOSE x \in pending : \A y \in pending : x.id <= y.id
             g == GetOrFetchRate(fx, e.date, e.currency, resps[e.id])
             rest == SyncLoop(pending \ {e}, g.fx,
                              IF g.result # NoRate /\ ios[e.id] = "ok"
                              THEN {x \in store : x.id # e.id} \cup {SyncOne(e, g.result)}
                              ELSE store,
                              resps, ios)
         IN [rest EXCEPT !.steps =
                <<"getOrFetchRate">>
                \o (IF g.result = NoRate THEN <<>>
                    ELSE IF ios[e.id] = "ok" THEN <<"putExpense">>
                    ELSE <<"putExpenseFail">>)
                \o @]

\* sumBaseCents: reduce with acc + (e.baseAmountCents || 0).
RECURSIVE SumBaseCents(_)
SumBaseCents(exps) ==
    IF exps = {} THEN 0
    ELSE LET e == CHOOSE x \in exps : TRUE
         IN (IF e.baseAmountCents = Null THEN 0 ELSE e.baseAmountCents)
            + SumBaseCents(exps \ {e})

\* Math.round(PPM / (ppm / PPM)): 10^12 / ppm to the nearest integer, the
\* quotient taken one decimal digit at a time so that no intermediate
\* value leaves the 32-bit range.  q, r: quotient and remainder of 10^j by
\* den for the digits done so far.
RECURSIVE LongDivide(_, _, _, _)
LongDivide(digits, den, q, r) ==
    IF digits = 0 THEN [q |-> q, r |-> r]
    ELSE LongDivide(digits - 1, den, q * 10 + (r * 10) \div den, (r * 10) % den)

HomeToTargetPpmNotInverted(ppm) == ppm

HomeToTargetPpm(ppm) ==
    LET d == LongDivide(12, ppm, 0, 1)
    IN IF 2 * d.r >= ppm THEN d.q + 1 ELSE d.q

\* Math.round(baseCents * homeToTargetPpm / PPM), the product split in
\* thousands for the same reason.
ScaleByPpm(cents, ppm) ==
    LET t == cents * (ppm \div 1000)
    IN (t \div 1000) + Round((t % 1000) * 1000 + cents * (ppm % 1000), PPM)

\* The value of an expression, evaluated once.
The(S) == CHOOSE x \in S : TRUE

\* convertBaseToTargetCents(baseCents, targetCurrency, endDate) called on
\* the day today: the home currency is returned as it is; otherwise the
\* rate of endDate || today() is resolved and inverted, and a missing
\* rate is an Error.
ConvertBaseToTargetCents(fx, baseCents, targetCurrency, endDate, today, resp) ==
    LET home == ToUpperCase(LoadSettings.homeCurrency)
        target == ToUpperCase(targetCurrency)
    IN IF target = home
       THEN [raised |-> FALSE, value |-> baseCents, rate |-> NoRate, fx |-> fx,
             steps |-> <<>>]
       ELSE The({IF result.result = NoRate
                 THEN [raised |-> TRUE, value |-> Null, rate |-> NoRate,
                       fx |-> result.fx, steps |-> result.steps]
                 ELSE [raised |-> FALSE,
                       value |-> ScaleByPpm(baseCents,
                                            HomeToTargetPpm(result.result.ppm)),
                       rate |-> result.result, fx |-> result.fx,
                       steps |-> result.steps] :
                 result \in {GetOrFetchRate(fx, IF endDate # NoDate THEN endDate
                                                ELSE today,
                                            target, resp)}})

\* ----------------------------------------------------------- Categories
\* String.prototype.toLowerCase and trim on the names the forms can hold.
ToLowerCase(s) ==
    CASE s = "Meals" -> "meals"
      [] s = "MEALS" -> "meals"
      [] s = "Taxi" -> "taxi"
      [] OTHER -> s

Trim(s) ==
    CASE s = " Taxi " -> "Taxi"
      [] s = "  " -> ""
      [] OTHER -> s

\* listCategories: the active trip's categories.
ListCategories(cats, tripId) == {c \in cats : c.tripId = tripId}

RenameCategoryUnchecked(cats, tripId, id, newName) ==
    LET name == Trim(newName)
    IN IF name = "" THEN [error |-> "Name required", categories |-> cats]
       ELSE IF ~ \E c \in ListCategories(cats, tripId) : c.id = id
       THEN [error |-> "Category not found", categories |-> cats]
       ELSE [error |-> "",
             categories |-> {IF c.id = id THEN [c EXCEPT !.name = name] ELSE c :
                             c \in cats}]

\* renameCategory(id, newName) with the categories store holding cats.
RenameCategory(cats, tripId, id, newName) ==
    LET name == Trim(newName)
        listed == ListCategories(cats, tripId)
    IN IF name = "" THEN [error |-> "Name required", categories |-> cats]
       ELSE IF \E c \in listed : ToLowerCase(c.name) = ToLowerCase(name) /\ c.id # id
       THEN [error |-> "A category with that name already exists.",
             categories |-> cats]
       ELSE IF ~ \E c \in listed : c.id = id
       THEN [error |-> "Category not found", categories |-> cats]
       ELSE [error |-> "",
             categories |-> {IF c.id = id THEN [c EXCEPT !.name = name] ELSE c :
                             c \in cats}]

ReassignCategoryNone(store, oldId, newId) == store

\* reassignCategory(oldId, newId): every expense of the byCategory index
\* entry oldId is put back with categoryId newId.
ReassignCategory(store, oldId, newId) ==
    {IF e.categoryId = oldId THEN [e EXCEPT !.categoryId = newId] ELSE e :
     e \in store}

\* ---------------------------------------------------------------- Page
\* getExpensesInRange: the active trip's expenses within the filter (an
\* empty field of the filter is NoDate).
GetExpensesInRange(startDate, endDate) ==
    {e \in expenses : /\ e.tripId = activeTripId
                      /\ (startDate = NoDate \/ e.date >= startDate)
                      /\ (endDate = NoDate \/ e.date <= endDate)}

\* The category ids of render's sorted exps (latest day first, in key
\* order within a day) in the order of their first occurrence: the
\* insertion order of renderCategorySummary's aggregates Map.
RECURSIVE GroupOrder(_)
GroupOrder(exps) ==
    IF exps = {} THEN <<>>
    ELSE LET first == CHOOSE e \in exps :
                         \A f \in exps : \/ f.date < e.date
                                          \/ (f.date = e.date /\ e.id <= f.id)
         IN <<first.categoryId>>
            \o GroupOrder({e \in exps : e.categoryId # first.categoryId})

\* What a total of the page shows: an amount in the display currency (at
\* the rate ppm when one was resolved) or an error message.
Amount(cents, rate) == [kind |-> "amount", cents |-> cents, ppm |-> rate.ppm]
ErrorText == [kind |-> "error", cents |-> Null, ppm |-> Null]
NotWritten == [kind |-> "stale", cents |-> Null, ppm |-> Null]

\* The rows of renderCategorySummary's loop for the groups from the k-th
\* on: each group's count and base total and its redisplayed total.  An
\* Error of convertBaseToTargetCents leaves the loop and the function.
RECURSIVE SummaryRows(_, _, _, _, _, _, _, _)
SummaryRows(groups, k, exps, fx, displayCurrency, endDate, today, resps) ==
    IF k > Len(groups) THEN [raised |-> FALSE, rows |-> <<>>, fx |-> fx]
    ELSE The({IF c.raised THEN [raised |-> TRUE, rows |-> <<>>, fx |-> c.fx]
              ELSE The({[rest EXCEPT !.rows =
                           <<[categoryId |-> groups[k],
                              count |-> Cardinality(members),
                              baseCents |-> baseCents,
                              display |-> Amount(c.value, c.rate)]>> \o @] :
                        rest \in {SummaryRows(groups, k + 1, exps, c.fx,
                                              displayCurrency, endDate, today,
                                              resps)}}) :
              members \in {{e \in exps : e.categoryId = groups[k]}},
              baseCents \in {SumBaseCents({e \in exps : e.categoryId = groups[k]})},
              c \in {ConvertBaseToTargetCents(
                        fx, SumBaseCents({e \in exps : e.categoryId = groups[k]}),
                        displayCurrency, endDate, today, resps[k + 1])}})

RECURSIVE SumOfRows(_)
SumOfRows(rows) ==
    IF rows = <<>> THEN 0 ELSE Head(rows).baseCents + SumOfRows(Tail(rows))

RECURSIVE SumOfDisplayed(_)
SumOfDisplayed(rows) ==
    IF rows = <<>> THEN 0
    ELSE Head(rows).display.cents + SumOfDisplayed(Tail(rows))

\* The grand total as the sum of the rows' redisplayed totals.
GrandTotalOfDisplayed(rows, fx, displayCurrency, endDate, today, resp) ==
    [ConvertBaseToTargetCents(fx, SumOfRows(rows), displayCurrency, endDate,
                              today, resp)
        EXCEPT !.value = IF @ = Null THEN Null ELSE SumOfDisplayed(rows)]

\* renderCategorySummary's closing total: grandBase redisplayed.
GrandTotal(rows, fx, displayCurrency, endDate, today, resp) ==
    ConvertBaseToTargetCents(fx, SumOfRows(rows), displayCurrency, endDate,
                             today, resp)

\* render() with the filter and the display currency of the form, on the
\* day today, resps being the provider's answers to the requests it may
\* make (for #summaryOutput, for each group in turn, for the grand
\* total).  page: what the elements of the page hold afterwards; an
\* element the run did not reach keeps what it held (NotWritten).
Render(startDate, endDate, displayCurrency, today, resps) ==
    The({The({IF body.raised
              THEN [raised |-> TRUE, fx |-> body.fx,
                    page |-> [summaryOutput |-> IF total.raised THEN ErrorText
                                                ELSE Amount(total.value, total.rate),
                              expenses |-> exps,
                              rowsWritten |-> FALSE, rows |-> <<>>,
                              catTotalCount |-> Null,
                              catGrandTotal |-> NotWritten,
                              categoriesTbody |-> FALSE]]
              ELSE The({[raised |-> FALSE, fx |-> grand.fx,
                         page |-> [summaryOutput |-> IF total.raised THEN ErrorText
                                                     ELSE Amount(total.value,
                                                                 total.rate),
                                   expenses |-> exps,
                                   rowsWritten |-> TRUE, rows |-> body.rows,
                                   catTotalCount |-> Cardinality(exps),
                                   catGrandTotal |-> IF grand.raised THEN ErrorText
                                                     ELSE Amount(grand.value,
                                                                 grand.rate),
                                   categoriesTbody |-> TRUE]] :
                        grand \in {GrandTotal(body.rows, body.fx, displayCurrency,
                                              endDate, today,
                                              resps[Len(groups) + 2])}}) :
              body \in {SummaryRows(groups, 1, exps, total.fx, displayCurrency,
                                    endDate, today, resps)}}) :
         exps \in {GetExpensesInRange(startDate, endDate)},
         groups \in {GroupOrder(GetExpensesInRange(startDate, endDate))},
         total \in {ConvertBaseToTargetCents(
                      fxRates, SumBaseCents(GetExpensesInRange(startDate, endDate)),
                      displayCurrency, endDate, today, resps[1])}})

NoPage == [summaryOutput |-> NotWritten, expenses |-> {}, rowsWritten |-> FALSE,
           rows |-> <<>>, catTotalCount |-> Null, catGrandTotal |-> NotWritten,
           categoriesTbody |-> FALSE]

\* ----------------------------------------------------------------- Init
\* The stores after ensureDefaults on a fresh install: the trip 'My Trip'
\* with its settings (CAD, 2.5 %) and its category 'Meals'.
\* last: the most recent call, for the caller's view of it: its arguments,
\* what the provider and the storage did (resp, respDate), whether it
\* returned or raised (outcome), the rate it returned and its accesses.
NoCall == [op |-> "none", id |-> Null, date |-> NoDate, currency |-> "",
           resp |-> "", respDate |-> NoDate, outcome |-> "ok",
           result |-> NoRate, steps |-> <<>>, base |-> 0, value |-> Null,
           page |-> NoPage, name |-> "", amount |-> 0, raw |-> NoSettings,
           loaded |-> DefaultSettings]

\* No backup file has been exported.
NoBackup == [exported |-> FALSE]

Init ==
    /\ trips = {1}
    /\ activeTripId = 1
    /\ settings = [t \in {1} |-> [homeCurrency |-> "CAD", tripCurrencies |-> <<"EUR">>,
                                  ccFeePercent |-> DefaultFee]]
    /\ categories = {[id |-> 1, name |-> "Meals", tripId |-> 1]}
    /\ cashBatches = {}
    /\ fxRates = [d \in {} |-> [base |-> "CAD", rates |-> NoRates]]
    /\ expenses = {}
    /\ usedIds = {}
    /\ online \in BOOLEAN
    /\ last = NoCall
    /\ inflight = <<>>
    /\ backup = NoBackup
    /\ tripNames = [t \in {1} |-> "My Trip"]

\* ------------------------------------------------- Rate store operations
RateDates == 1..MaxRateDate

\* A call of getOrFetchRate(dateStr, currency) (from addExpense,
\* updateExpense, syncPendingExpenses or convertBaseToTargetCents).
GetOrFetchRateCall(dateStr, currency, resp) ==
    \E r \in {GetOrFetchRate(fxRates, dateStr, currency, resp)} :
       /\ Cardinality(DOMAIN r.fx) <= MaxRows
       /\ fxRates' = r.fx
       /\ last' = [NoCall EXCEPT !.op = "getOrFetchRate", !.date = dateStr,
                                 !.currency = ToUpperCase(currency),
                                 !.resp = resp.kind, !.respDate = resp.date,
                                 !.outcome = IF r.raised THEN "raised" ELSE "ok",
                                 !.result = r.result, !.steps = r.steps]
       /\ UNCHANGED <<tripNames, backup, inflight, trips, activeTripId, settings, categories, cashBatches,
                      expenses, usedIds, online>>

\* A call of fetchAndCacheRate(dateStr, currency) as addExpense and
\* updateExpense make it for their second attempt (after getOrFetchRate
\* returned null, which it never does for the home currency), with the
\* storage failing or not.
FetchAndCacheRateCall(dateStr, currency, resp, io) ==
    \E r \in {FetchAndCacheRate(fxRates, dateStr, currency, resp, io)} :
       /\ ToUpperCase(currency) # ToUpperCase(LoadSettings.homeCurrency)
       /\ Cardinality(DOMAIN r.fx) <= MaxRows
       /\ fxRates' = r.fx
       /\ last' = [NoCall EXCEPT !.op = "fetchAndCacheRate", !.date = dateStr,
                                 !.currency = ToUpperCase(currency),
                                 !.resp = IF io = "ok" THEN resp.kind ELSE io,
                                 !.respDate = resp.date,
                                 !.outcome = IF r.raised THEN "raised" ELSE "ok",
                                 !.result = r.result, !.steps = r.steps]
       /\ UNCHANGED <<tripNames, backup, inflight, trips, activeTripId, settings, categories, cashBatches,
                      expenses, usedIds, online>>

\* #addCategory click: the name typed is checked against the active
\* trip's categories and stored under a fresh id.
AddCategory(id, input) ==
    /\ \A c \in categories : c.id # id
    /\ \A e \in expenses : e.categoryId # id
    /\ LET name == Trim(input)
           refused == IF name = "" THEN "Enter a category name."
                      ELSE IF \E c \in ListCategories(categories, activeTripId) :
                                 ToLowerCase(c.name) = ToLowerCase(name)
                      THEN "A category with that name already exists."
                      ELSE ""
       IN /\ categories' = IF refused # "" THEN categories
                           ELSE categories \cup
                                  {[id |-> id, name |-> name, tripId |-> activeTripId]}
          /\ last' = [NoCall EXCEPT !.op = "addCategory", !.id = id,
                                    !.name = input,
                                    !.outcome = IF refused # "" THEN refused ELSE "ok"]
    /\ UNCHANGED <<tripNames, backup, inflight, trips, activeTripId, settings, cashBatches, fxRates,
                   expenses, usedIds, online>>

\* The Rename button of a listed category, input being what is typed at
\* the prompt: renameCategory is called and its Error is alerted.
RenameBtn(id, input) ==
    /\ \E c \in ListCategories(categories, activeTripId) : c.id = id
    /\ input # ""
    /\ \E r \in {RenameCategory(categories, activeTripId, id, input)} :
          /\ categories' = r.categories
          /\ last' = [NoCall EXCEPT !.op = "renameCategory", !.id = id,
                                    !.name = input,
                                    !.outcome = IF r.error # "" THEN r.error ELSE "ok"]
    /\ UNCHANGED <<tripNames, backup, inflight, trips, activeTripId, settings, cashBatches, fxRates,
                   expenses, usedIds, online>>

\* The Delete button of a listed category: an unused category is deleted
\* once confirmed; a used one is deleted after its expenses were
\* reassigned to the category whose name is typed at the prompt.
\* outcome: what the handler did.
DeleteBtn(id, targetName, confirmed) ==
    \E cat \in ListCategories(categories, activeTripId) :
       /\ cat.id = id
       /\ LET count == Cardinality({e \in expenses : /\ e.tripId = activeTripId
                                                     /\ e.categoryId = id})
              otherCats == ListCategories(categories, activeTripId) \ {cat}
              targets == {c \in otherCats :
                            ToLowerCase(c.name) = ToLowerCase(Trim(targetName))}
              outcome == IF count = 0
                         THEN (IF confirmed THEN "deleted" ELSE "kept")
                         ELSE IF otherCats = {}
                         THEN "Create another category first, then reassign."
                         ELSE IF targetName = "" THEN "kept"
                         ELSE IF targets = {} THEN "No matching category found."
                         ELSE IF confirmed THEN "reassigned" ELSE "kept"
          IN /\ categories' = IF outcome \in {"deleted", "reassigned"}
                              THEN categories \ {cat} ELSE categories
             /\ expenses' = IF outcome = "reassigned"
                            THEN ReassignCategory(expenses, id,
                                                  (CHOOSE c \in targets : TRUE).id)
                            ELSE expenses
             /\ last' = [NoCall EXCEPT !.op = "deleteCategory", !.id = id,
                                       !.name = targetName, !.outcome = outcome]
       /\ UNCHANGED <<tripNames, backup, inflight, trips, activeTripId, settings, cashBatches, fxRates,
                      usedIds, online>>

\* A run of render() (the closing call of every handler, and the change
\* handlers of the filter and of #summaryCurrency).
RenderCall(startDate, endDate, displayCurrency, today, resps) ==
    \E r \in {Render(startDate, endDate, displayCurrency, today, resps)} :
       /\ Cardinality(DOMAIN r.fx) <= MaxRows
       /\ fxRates' = r.fx
       /\ last' = [NoCall EXCEPT !.op = "render", !.date = endDate,
                                 !.currency = ToUpperCase(displayCurrency),
                                 !.outcome = IF r.raised THEN "raised" ELSE "ok",
                                 !.page = r.page]
       /\ UNCHANGED <<tripNames, backup, inflight, trips, activeTripId, settings, categories,
                      cashBatches, expenses, usedIds, online>>

\* A call of convertBaseToTargetCents(baseCents, targetCurrency, endDate)
\* (from render or renderCategorySummary) on the day today.
ConvertBaseToTargetCentsCall(baseCents, targetCurrency, endDate, today, resp) ==
    \E r \in {ConvertBaseToTargetCents(fxRates, baseCents, targetCurrency,
                                        endDate, today, resp)} :
       /\ Cardinality(DOMAIN r.fx) <= MaxRows
       /\ fxRates' = r.fx
       /\ last' = [NoCall EXCEPT !.op = "convertBaseToTargetCents",
                                 !.base = baseCents,
                                 !.date = endDate,
                                 !.currency = ToUpperCase(targetCurrency),
                                 !.resp = resp.kind, !.respDate = resp.date,
                                 !.outcome = IF r.raised THEN "raised" ELSE "ok",
                                 !.result = r.rate, !.steps = r.steps,
                                 !.value = r.value]
       /\ UNCHANGED <<tripNames, backup, inflight, trips, activeTripId, settings, categories,
                      cashBatches, expenses, usedIds, online>>

\* ------------------------------------------------------------ Handlers
\* The rate typed for a cash batch bought on a day.
CashQuote(date, currency) ==
    (CASE currency = "CAD" -> 7006000
       [] currency = "USD" -> 13006000
       [] OTHER -> 14006000) + (date - 1) * 500000

\* #newTripBtn with 'My Trip' typed at the prompt: createTrip seeds the
\* trip's settings and its Meals category, and the new trip becomes the
\* active one.
CreateTrip(id) ==
    /\ id \notin trips
    /\ trips' = trips \cup {id}
    /\ settings' = [t \in trips \cup {id} |->
                      IF t = id
                      THEN [homeCurrency |-> "CAD", tripCurrencies |-> <<"EUR">>,
                            ccFeePercent |-> DefaultFee]
                      ELSE settings[t]]
    /\ categories' = categories \cup {[id |-> id, name |-> "Meals", tripId |-> id]}
    /\ tripNames' = [t \in trips \cup {id} |->
                       IF t = id THEN "My Trip" ELSE tripNames[t]]
    /\ activeTripId' = id
    /\ last' = [NoCall EXCEPT !.op = "createTrip", !.id = id]
    /\ UNCHANGED <<backup, inflight, cashBatches, fxRates, expenses, usedIds, online>>

\* A call of createTrip(name): a name that is blank once trimmed is an
\* Error; otherwise the trip, its settings and its Meals category are put.
CreateTripCall(id, name) ==
    /\ id \notin trips
    /\ IF Trim(name) = ""
       THEN /\ last' = [NoCall EXCEPT !.op = "createTripCall", !.id = id,
                           !.name = name, !.outcome = "Trip name is required."]
            /\ UNCHANGED <<trips, tripNames, settings, categories>>
       ELSE /\ trips' = trips \cup {id}
            /\ tripNames' = [t \in trips \cup {id} |->
                               IF t = id THEN Trim(name) ELSE tripNames[t]]
            /\ settings' = [t \in trips \cup {id} |->
                              IF t = id
                              THEN [homeCurrency |-> "CAD", tripCurrencies |-> <<"EUR">>,
                                    ccFeePercent |-> DefaultFee]
                              ELSE settings[t]]
            /\ categories' = categories \cup
                                {[id |-> id, name |-> "Meals", tripId |-> id]}
            /\ last' = [NoCall EXCEPT !.op = "createTripCall", !.id = id,
                                      !.name = name]
    /\ UNCHANGED <<backup, inflight, activeTripId, cashBatches, fxRates, expenses,
                   usedIds, online>>

\* A call of renameTrip(tripId, newName): a blank name and a missing trip
\* are Errors; otherwise the trip's record is put with the trimmed name.
RenameTripCall(tripId, newName) ==
    /\ LET refused == IF Trim(newName) = "" THEN "Trip name is required."
                      ELSE IF tripId \notin trips THEN "Trip not found."
                      ELSE ""
       IN /\ tripNames' = IF refused # "" THEN tripNames
                          ELSE [tripNames EXCEPT ![tripId] = Trim(newName)]
          /\ last' = [NoCall EXCEPT !.op = "renameTrip", !.id = tripId,
                                    !.name = newName,
                                    !.outcome = IF refused # "" THEN refused ELSE "ok"]
    /\ UNCHANGED <<backup, inflight, trips, activeTripId, settings, categories,
                   cashBatches, fxRates, expenses, usedIds, online>>

\* #tripSelector change.
SelectTrip(id) ==
    /\ id \in trips
    /\ id # activeTripId
    /\ activeTripId' = id
    /\ last' = [NoCall EXCEPT !.op = "selectTrip", !.id = id]
    /\ UNCHANGED <<tripNames, backup, inflight, trips, settings, categories, cashBatches, fxRates, expenses,
                   usedIds, online>>

DeleteTripAllBatches(tripId) ==
    [trips |-> trips \ {tripId},
     tripNames |-> [t \in (DOMAIN tripNames) \ {tripId} |-> tripNames[t]],
     settings |-> [t \in (DOMAIN settings) \ {tripId} |-> settings[t]],
     categories |-> {c \in categories : c.tripId # tripId},
     cashBatches |-> {},
     expenses |-> {e \in expenses : e.tripId # tripId}]

\* deleteTrip: the stores without the trip, its settings record and the
\* expenses, categories and cash batches of its byTrip indexes.
DeleteTrip(tripId) ==
    [trips |-> trips \ {tripId},
     tripNames |-> [t \in (DOMAIN tripNames) \ {tripId} |-> tripNames[t]],
     settings |-> [t \in (DOMAIN settings) \ {tripId} |-> settings[t]],
     categories |-> {c \in categories : c.tripId # tripId},
     cashBatches |-> {b \in cashBatches : b.tripId # tripId},
     expenses |-> {e \in expenses : e.tripId # tripId}]

\* #deleteTripBtn: refused while one trip is left; once confirmed the
\* active trip is deleted and the first remaining trip becomes active.
DeleteTripBtn(confirmed) ==
    /\ IF Cardinality(trips) <= 1
       THEN /\ last' = [NoCall EXCEPT !.op = "deleteTrip", !.id = activeTripId,
                            !.outcome = "You must have at least one trip."]
            /\ UNCHANGED <<trips, tripNames, activeTripId, settings, categories,
                           cashBatches, expenses>>
       ELSE IF ~confirmed
       THEN /\ last' = [NoCall EXCEPT !.op = "deleteTrip", !.id = activeTripId,
                                      !.outcome = "kept"]
            /\ UNCHANGED <<trips, tripNames, activeTripId, settings, categories,
                           cashBatches, expenses>>
       ELSE \E r \in {DeleteTrip(activeTripId)} :
               /\ trips' = r.trips
               /\ tripNames' = r.tripNames
               /\ settings' = r.settings
               /\ categories' = r.categories
               /\ cashBatches' = r.cashBatches
               /\ expenses' = r.expenses
               /\ activeTripId' = SetMin(r.trips)
               /\ last' = [NoCall EXCEPT !.op = "deleteTrip", !.id = activeTripId,
                                         !.outcome = "deleted"]
    /\ UNCHANGED <<backup, inflight, fxRates, usedIds, online>>

\* #exportBackupBtn -> exportBackup: the file holds every store.
ExportBackup ==
    /\ backup' = [exported |-> TRUE, trips |-> trips, tripNames |-> tripNames,
                  settings |-> settings,
                  categories |-> categories, cashBatches |-> cashBatches,
                  fxRates |-> fxRates, expenses |-> expenses]
    /\ last' = [NoCall EXCEPT !.op = "exportBackup"]
    /\ UNCHANGED <<tripNames, inflight, trips, activeTripId, settings, categories,
                   cashBatches, fxRates, expenses, usedIds, online>>

\* The records of a store after those of the file were put: a stored
\* record gives way to the incoming one with its key.
PutAll(store, incoming) ==
    {x \in store : \A y \in incoming : y.id # x.id} \cup incoming

\* importBackupFile for a file with the six stores.  wipe: the answer to
\* the confirm; every store of the file is emptied first when it is
\* given, and otherwise the file's records are put over the stored ones.
\* An active trip that no longer exists gives way to the file's first
\* trip, if the file has one.
ImportStores(file, wipe) ==
    /\ trips' = IF wipe THEN file.trips ELSE trips \cup file.trips
    /\ tripNames' = IF wipe THEN file.tripNames ELSE file.tripNames @@ tripNames
    /\ settings' = IF wipe THEN file.settings ELSE file.settings @@ settings
    /\ categories' = IF wipe THEN file.categories
                     ELSE PutAll(categories, file.categories)
    /\ cashBatches' = IF wipe THEN file.cashBatches
                      ELSE PutAll(cashBatches, file.cashBatches)
    /\ fxRates' = IF wipe THEN file.fxRates ELSE file.fxRates @@ fxRates
    /\ expenses' = IF wipe THEN file.expenses
                   ELSE PutAll(expenses, file.expenses)
    /\ activeTripId' = IF file.trips # {} /\ activeTripId \notin trips'
                       THEN SetMin(file.trips) ELSE activeTripId
    /\ last' = [NoCall EXCEPT !.op = "importBackup",
                              !.outcome = IF wipe THEN "wipe" ELSE "merge"]
    /\ UNCHANGED <<backup, inflight, usedIds, online>>

\* The import of the exported file.
ImportBackupFile(wipe) ==
    /\ backup.exported
    /\ ImportStores(backup, wipe)

\* A backup file whose six stores are empty arrays.
EmptyBackup ==
    [exported |-> TRUE, trips |-> {}, tripNames |-> <<>>, settings |-> <<>>,
     categories |-> {}, cashBatches |-> {}, fxRates |-> <<>>, expenses |-> {}]

\* The import of a file without records.
ImportEmptyBackup(wipe) == ImportStores(EmptyBackup, wipe)

\* A later visit -> ensureDefaults: without a trip 'My Trip' is created
\* and made the active trip; the trip of localStorage stays the active
\* one if it is stored, and otherwise the first stored trip is.
EnsureDefaults(id) ==
    IF trips = {}
    THEN CreateTrip(id)
    ELSE /\ id = SetMin(trips)
         /\ activeTripId' = IF activeTripId \in trips THEN activeTripId
                            ELSE SetMin(trips)
         /\ last' = [NoCall EXCEPT !.op = "ensureDefaults"]
         /\ UNCHANGED <<tripNames, backup, inflight, trips, settings, categories,
                        cashBatches, fxRates, expenses, usedIds, online>>

\* put('settings', {id: settingsKey(), ...}): the active trip's record is
\* replaced, or created if there is none.
PutSettings(record) ==
    [t \in (DOMAIN settings) \cup {activeTripId} |->
        IF t = activeTripId THEN record ELSE settings[t]]

SaveSettingsRederive(homeCurrency, ccFee) ==
    /\ settings' = PutSettings(
                      [homeCurrency |-> ToUpperCase(homeCurrency),
                       tripCurrencies |-> LoadSettings.tripCurrencies,
                       ccFeePercent |-> ccFee])
    /\ expenses' = {IF e.fxSource = "frankfurter"
                    THEN [e EXCEPT !.baseAmountCents =
                             Round(e.amountLocalCents * ApplyFeePpm(e.fxRatePpm, ccFee),
                                   PPM)]
                    ELSE e : e \in expenses}
    /\ last' = [NoCall EXCEPT !.op = "saveSettings"]
    /\ UNCHANGED <<tripNames, backup, inflight, trips, activeTripId, categories, cashBatches, fxRates,
                   usedIds, online>>

\* #settingsForm submit: the active trip's settings are replaced; the trip
\* currencies field is left as render() filled it.
SaveSettings(homeCurrency, ccFee) ==
    /\ settings' = PutSettings(
                      [homeCurrency |-> ToUpperCase(homeCurrency),
                       tripCurrencies |-> LoadSettings.tripCurrencies,
                       ccFeePercent |-> ccFee])
    /\ last' = [NoCall EXCEPT !.op = "saveSettings"]
    /\ UNCHANGED <<tripNames, backup, inflight, trips, activeTripId, categories, cashBatches, fxRates, expenses,
                   usedIds, online>>

\* #settingsForm submit with the fields as typed: the home currency
\* trimmed and upper cased, the comma separated trip currencies trimmed,
\* upper cased, the empty ones dropped and the repeated ones merged.
SettingsFormSubmit(homeCurrency, rawTrips, ccFee) ==
    LET tokens == Split(rawTrips, ",")
        codes == [i \in 1..Len(tokens) |->
                    TextString(ToUpperCaseText(TrimText(tokens[i])))]
        tripCurrencies == Unique(SelectSeq(codes, LAMBDA c : c # ""))
    IN /\ settings' = PutSettings(
                         [homeCurrency |->
                             TextString(ToUpperCaseText(TrimText(homeCurrency))),
                          tripCurrencies |-> tripCurrencies,
                          ccFeePercent |-> ccFee])
       /\ last' = [NoCall EXCEPT !.op = "saveSettings"]
       /\ UNCHANGED <<tripNames, backup, inflight, trips, activeTripId, categories, cashBatches,
                      fxRates, expenses, usedIds, online>>

\* A call of loadSettings() (the first step of render and of every
\* handler that converts).  raw: the record read; loaded: the answer.
LoadSettingsCall ==
    /\ last' = [NoCall EXCEPT !.op = "loadSettings",
                              !.raw = IF activeTripId \in DOMAIN settings
                                      THEN settings[activeTripId] ELSE NoSettings,
                              !.loaded = LoadSettings]
    /\ UNCHANGED <<tripNames, backup, inflight, trips, activeTripId, settings, categories,
                   cashBatches, fxRates, expenses, usedIds, online>>

\* normalizeSettings(raw) on a record that an earlier version stored.
NormalizeSettingsCall(raw) ==
    /\ last' = [NoCall EXCEPT !.op = "normalizeSettings", !.raw = raw,
                              !.loaded = NormalizeSettings(raw)]
    /\ UNCHANGED <<tripNames, backup, inflight, trips, activeTripId, settings, categories,
                   cashBatches, fxRates, expenses, usedIds, online>>

\* #cashForm submit -> addCashBatch, under a fresh id.
AddCashBatch(id, date, currency, rateStr) ==
    /\ \A b \in cashBatches : b.id # id
    /\ cashBatches' = cashBatches \cup
          {[id |-> id, tripId |-> activeTripId, date |-> date,
            currency |-> ToUpperCase(currency), ratePpm |-> RateToPpm(rateStr)]}
    /\ last' = [NoCall EXCEPT !.op = "addCashBatch", !.id = id]
    /\ UNCHANGED <<tripNames, backup, inflight, trips, activeTripId, settings, categories, fxRates, expenses,
                   usedIds, online>>

\* A call of pickCashBatchFor(dateStr, currency) (from addExpense or
\* updateExpense of a cash expense in a foreign currency).
PickCashBatchForCall(dateStr, currency) ==
    /\ last' = [NoCall EXCEPT !.op = "pickCashBatchFor", !.date = dateStr,
                              !.currency = ToUpperCase(currency),
                              !.id = PickCashBatchFor(cashBatches, activeTripId,
                                                      dateStr, currency).id]
    /\ UNCHANGED <<tripNames, backup, inflight, trips, activeTripId, settings, categories, cashBatches, fxRates,
                   expenses, usedIds, online>>

\* The Delete button of a listed cash batch (the list shows the active
\* trip's batches) -> deleteCashBatch; a refusal is shown to the user.
DeleteCashBtn(id) ==
    /\ \E b \in cashBatches : b.id = id /\ b.tripId = activeTripId
    /\ \E r \in {DeleteCashBatch(id)} :
          /\ cashBatches' = r.cashBatches
          /\ last' = [NoCall EXCEPT !.op = "deleteCashBatch", !.id = id,
                                    !.outcome = IF r.ok THEN "true" ELSE "false"]
    /\ UNCHANGED <<tripNames, backup, inflight, trips, activeTripId, settings, categories, fxRates, expenses,
                   usedIds, online>>

\* The Edit button of a listed cash batch, then Save: the stored batch
\* takes the form's date, currency and rate.
SaveCashBtn(id, newDate, newCurrency, newRate) ==
    \E batch \in cashBatches :
       /\ batch.id = id
       /\ batch.tripId = activeTripId
       /\ cashBatches' = (cashBatches \ {batch}) \cup
             {[batch EXCEPT !.date = newDate,
                            !.currency = ToUpperCase(newCurrency),
                            !.ratePpm = RateToPpm(newRate)]}
       /\ last' = [NoCall EXCEPT !.op = "saveCashBatch", !.id = id]
       /\ UNCHANGED <<tripNames, backup, inflight, trips, activeTripId, settings, categories, fxRates, expenses,
                      usedIds, online>>

\* #expenseForm submit -> addExpense under a fresh id; an error is shown
\* and nothing is stored but the rates the lookups cached.  last keeps the
\* arguments of a failed call; those of a successful one are in the
\* stored expense.
AddExpense(id, date, currency, method, categoryId, amountLocal, resp1, resp2) ==
    /\ id \notin usedIds
    /\ \E r \in {AddExpenseDerive(date, currency, method, amountLocal, resp1, resp2)} :
          /\ fxRates' = r.fx
          /\ IF r.error # ""
             THEN UNCHANGED <<expenses, usedIds>>
             ELSE /\ expenses' = expenses \cup
                        {[id |-> id, tripId |-> activeTripId, date |-> date,
                          currency |-> ToUpperCase(currency), method |-> method,
                          categoryId |-> categoryId,
                          amountLocalCents |-> ToCents(amountLocal),
                          baseAmountCents |-> r.baseAmountCents,
                          fxRatePpm |-> r.fxRatePpm, fxSource |-> r.fxSource,
                          cashBatchId |-> r.cashBatchId]}
                  /\ usedIds' = usedIds \cup {id}
          /\ last' = IF r.error # ""
                     THEN [NoCall EXCEPT !.op = "addExpense", !.id = id,
                                         !.date = date,
                                         !.currency = ToUpperCase(currency),
                                         !.amount = amountLocal,
                                         !.outcome = r.error,
                                         !.steps = r.steps]
                     ELSE [NoCall EXCEPT !.op = "addExpense", !.id = id,
                                         !.amount = amountLocal]
    /\ UNCHANGED <<tripNames, backup, inflight, trips, activeTripId, settings, categories, cashBatches, online>>

UpdateExpenseWriteFirst(id, date, currency, method, categoryId, amountLocal, resp1, resp2) ==
    \E exp \in expenses :
       /\ exp.id = id
       /\ exp.tripId = activeTripId
       /\ IF amountLocal = NaN
          THEN /\ last' = [NoCall EXCEPT !.op = "updateExpense", !.id = id,
                              !.amount = amountLocal,
                              !.outcome = "Invalid input. Please check date, currency, method, and amount."]
               /\ UNCHANGED <<expenses, fxRates>>
          ELSE \E r \in {UpdateExpenseDerive(date, currency, method, amountLocal,
                                             resp1, resp2)} :
             /\ fxRates' = r.fx
             /\ IF r.error # ""
                THEN expenses' = (expenses \ {exp}) \cup
                        {[exp EXCEPT !.date = date,
                                     !.currency = ToUpperCase(currency),
                                     !.method = method,
                                     !.categoryId = categoryId,
                                     !.amountLocalCents = ToCents(amountLocal)]}
                ELSE expenses' = (expenses \ {exp}) \cup
                        {[exp EXCEPT !.date = date,
                                     !.currency = ToUpperCase(currency),
                                     !.method = method,
                                     !.categoryId = categoryId,
                                     !.amountLocalCents = ToCents(amountLocal),
                                     !.baseAmountCents = r.baseAmountCents,
                                     !.fxRatePpm = r.fxRatePpm,
                                     !.fxSource = r.fxSource,
                                     !.cashBatchId = r.cashBatchId]}
             /\ last' = IF r.error # ""
                        THEN [NoCall EXCEPT !.op = "updateExpense", !.id = id,
                                            !.date = date,
                                            !.currency = ToUpperCase(currency),
                                            !.amount = amountLocal,
                                            !.outcome = r.error,
                                            !.steps = r.steps]
                        ELSE [NoCall EXCEPT !.op = "updateExpense", !.id = id,
                                            !.amount = amountLocal]
       /\ UNCHANGED <<tripNames, backup, inflight, trips, activeTripId, settings, categories, cashBatches,
                      usedIds, online>>

\* The edit form of a listed expense -> updateExpense: an amount that is
\* not a number is refused by the form; otherwise the stored record keeps
\* its id and trip and takes the form's fields and a new derivation.
UpdateExpense(id, date, currency, method, categoryId, amountLocal, resp1, resp2) ==
    \E exp \in expenses :
       /\ exp.id = id
       /\ exp.tripId = activeTripId
       /\ IF amountLocal = NaN
          THEN /\ last' = [NoCall EXCEPT !.op = "updateExpense", !.id = id,
                              !.amount = amountLocal,
                              !.outcome = "Invalid input. Please check date, currency, method, and amount."]
               /\ UNCHANGED <<expenses, fxRates>>
          ELSE \E r \in {UpdateExpenseDerive(date, currency, method, amountLocal,
                                             resp1, resp2)} :
             /\ fxRates' = r.fx
             /\ IF r.error # ""
                THEN UNCHANGED expenses
                ELSE expenses' = (expenses \ {exp}) \cup
                        {[exp EXCEPT !.date = date,
                                     !.currency = ToUpperCase(currency),
                                     !.method = method,
                                     !.categoryId = categoryId,
                                     !.amountLocalCents = ToCents(amountLocal),
                                     !.baseAmountCents = r.baseAmountCents,
                                     !.fxRatePpm = r.fxRatePpm,
                                     !.fxSource = r.fxSource,
                                     !.cashBatchId = r.cashBatchId]}
             /\ last' = IF r.error # ""
                        THEN [NoCall EXCEPT !.op = "updateExpense", !.id = id,
                                            !.date = date,
                                            !.currency = ToUpperCase(currency),
                                            !.amount = amountLocal,
                                            !.outcome = r.error,
                                            !.steps = r.steps]
                        ELSE [NoCall EXCEPT !.op = "updateExpense", !.id = id,
                                            !.amount = amountLocal]
       /\ UNCHANGED <<tripNames, backup, inflight, trips, activeTripId, settings, categories, cashBatches,
                      usedIds, online>>

\* updateExpense(id, fields) for any id: without a stored expense of that
\* id it throws 'Expense not found.' and nothing is written.
UpdateExpenseCall(id, date, currency, method, categoryId, amountLocal, resp1, resp2) ==
    IF \A exp \in expenses : exp.id # id
    THEN /\ last' = [NoCall EXCEPT !.op = "updateExpense", !.id = id,
                                   !.amount = amountLocal,
                                   !.outcome = "Expense not found."]
         /\ UNCHANGED <<tripNames, backup, inflight, trips, activeTripId, settings,
                        categories, cashBatches, fxRates, expenses, usedIds, online>>
    ELSE UpdateExpense(id, date, currency, method, categoryId, amountLocal, resp1, resp2)

\* The delete button of a listed expense -> deleteExpense.
DeleteExpense(id) ==
    \E exp \in expenses :
       /\ exp.id = id
       /\ exp.tripId = activeTripId
       /\ expenses' = expenses \ {exp}
       /\ last' = [NoCall EXCEPT !.op = "deleteExpense", !.id = id]
       /\ UNCHANGED <<tripNames, backup, inflight, trips, activeTripId, settings, categories, cashBatches, fxRates,
                      usedIds, online>>

\* The provider's answers to one pass of syncPendingExpenses made while
\* connected: one per selected expense.
SyncAnswers(pending) ==
    LET answers(e) == ProviderResponses(e.date, e.currency, LoadSettings.homeCurrency)
                         \ (Failures \ {NetError})
    IN {f \in [{e.id : e \in pending} -> UNION {answers(e) : e \in pending}] :
           \A e \in pending : f[e.id] \in answers(e)}

\* Whether each put('expenses', e) of a pass is carried out or rejected
\* by the storage.
SyncIo(pending, kinds) == [{e.id : e \in pending} -> kinds]

\* syncPendingExpenses: the active trip's pending expenses are looked up
\* again; the ones that get a rate are rewritten (last notes whether the
\* provider gave a rate for every request and the storage took every put,
\* whether any expense was rewritten, and the loop's calls).
SyncPendingExpenses(resps, ios) ==
    \E r \in {SyncLoop({e \in expenses : e.tripId = activeTripId /\ IsPending(e)},
                         fxRates, expenses, resps, ios)} :
       /\ expenses' = r.expenses
       /\ fxRates' = r.fx
       /\ last' = [NoCall EXCEPT !.op = "syncPendingExpenses",
                                 !.resp = IF \A id \in DOMAIN resps :
                                                /\ resps[id].kind = "ok"
                                                /\ ios[id] = "ok"
                                          THEN "ok" ELSE "failed",
                                 !.outcome = IF r.expenses # expenses
                                             THEN "resolved" ELSE "ok",
                                 !.steps = r.steps]

OnlineEventNoSync(kinds) ==
    /\ ~online
    /\ online' = TRUE
    /\ last' = [NoCall EXCEPT !.op = "online"]
    /\ UNCHANGED <<tripNames, backup, inflight, trips, activeTripId, settings, categories, cashBatches, fxRates,
                   expenses, usedIds>>

\* The window's online event: the device is connected again and
\* syncPendingExpenses runs, with the storage answering its puts in one of
\* the given ways.
OnlineEvent(kinds) ==
    /\ ~online
    /\ online' = TRUE
    /\ \E resps \in SyncAnswers({e \in expenses : e.tripId = activeTripId /\ IsPending(e)}),
          ios \in SyncIo({e \in expenses : e.tripId = activeTripId /\ IsPending(e)}, kinds) :
          SyncPendingExpenses(resps, ios)
    /\ UNCHANGED <<tripNames, backup, inflight, trips, activeTripId, settings, categories, cashBatches, usedIds>>

\* DOMContentLoaded on a later visit: the stores and the active trip are
\* the persisted ones, and syncPendingExpenses runs if the device is
\* connected.
Startup(kinds) ==
    /\ IF online
       THEN \E resps \in SyncAnswers({e \in expenses :
                                        e.tripId = activeTripId /\ IsPending(e)}),
               ios \in SyncIo({e \in expenses :
                                 e.tripId = activeTripId /\ IsPending(e)}, kinds) :
               SyncPendingExpenses(resps, ios)
       ELSE /\ last' = [NoCall EXCEPT !.op = "startup"]
            /\ UNCHANGED <<expenses, fxRates>>
    /\ UNCHANGED <<tripNames, backup, inflight, trips, activeTripId, settings, categories, cashBatches, usedIds,
                   online>>

\* The online event with a storage that works.
GoOnline == OnlineEvent({"ok"})

\* The window's offline event.
GoOffline ==
    /\ online
    /\ online' = FALSE
    /\ last' = [NoCall EXCEPT !.op = "offline"]
    /\ UNCHANGED <<tripNames, backup, inflight, trips, activeTripId, settings, categories, cashBatches, fxRates,
                   expenses, usedIds>>

\* --------------------------------------------- Handlers, await by await
\* The calls of inflight are the handlers that were started and are
\* suspended at an await; each step below runs one of them from one await
\* to the next.  At most MaxInFlight calls are suspended at a time.
MaxInFlight == 2

Remove(seq, i) == SubSeq(seq, 1, i - 1) \o SubSeq(seq, i + 1, Len(seq))

\* A pass of syncPendingExpenses: the trip it read at its start, the
\* await it is suspended at and the records of its pending array that
\* its loop has not reached yet.
SyncPass(tripId, pc, todo) ==
    [op |-> "syncPendingExpenses", tripId |-> tripId, pc |-> pc, todo |-> todo]

\* The online listener: syncPendingExpenses is called and suspends at its
\* indexGetAllKey.
OnlineListener ==
    /\ ~online
    /\ Len(inflight) < MaxInFlight
    /\ online' = TRUE
    /\ inflight' = Append(inflight, SyncPass(activeTripId, "getAll", {}))
    /\ last' = [NoCall EXCEPT !.op = "online"]
    /\ UNCHANGED <<tripNames, backup, trips, activeTripId, settings, categories, cashBatches, fxRates,
                   expenses, usedIds>>

\* indexGetAllKey answers: the pass filters what is stored now and
\* returns if nothing is pending, else enters its loop.
SyncGetAll(i) ==
    /\ i \in DOMAIN inflight
    /\ inflight[i].op = "syncPendingExpenses"
    /\ inflight[i].pc = "getAll"
    /\ LET pending == {e \in expenses : e.tripId = inflight[i].tripId /\ IsPending(e)}
       IN inflight' = IF pending = {} THEN Remove(inflight, i)
                      ELSE [inflight EXCEPT ![i] = SyncPass(@.tripId, "loop", pending)]
    /\ last' = [NoCall EXCEPT !.op = "syncGetAll", !.id = i]
    /\ UNCHANGED <<tripNames, backup, trips, activeTripId, settings, categories, cashBatches, fxRates,
                   expenses, usedIds, online>>

\* One turn of the loop: getOrFetchRate for the next record of the pass's
\* array and, with a rate, the put of that record as the pass holds it.
SyncIteration(i, resp, io) ==
    /\ i \in DOMAIN inflight
    /\ inflight[i].op = "syncPendingExpenses"
    /\ inflight[i].pc = "loop"
    /\ LET todo == inflight[i].todo
           e == CHOOSE x \in todo : \A y \in todo : x.id <= y.id
       IN /\ resp \in Responses(e.date, e.currency)
          /\ \E g \in {GetOrFetchRate(fxRates, e.date, e.currency, resp)} :
                /\ fxRates' = g.fx
                /\ expenses' = IF g.result # NoRate /\ io = "ok"
                               THEN {x \in expenses : x.id # e.id}
                                       \cup {SyncOne(e, g.result)}
                               ELSE expenses
                /\ last' = [NoCall EXCEPT !.op = "syncIteration", !.id = e.id,
                                          !.resp = resp.kind,
                                          !.result = g.result]
          /\ inflight' = [inflight EXCEPT ![i] =
                             SyncPass(@.tripId,
                                      IF todo = {e} THEN "render" ELSE "loop",
                                      todo \ {e})]
    /\ UNCHANGED <<tripNames, backup, trips, activeTripId, settings, categories, cashBatches, usedIds,
                   online>>

\* The pass's closing render: the pass is over.
SyncRender(i) ==
    /\ i \in DOMAIN inflight
    /\ inflight[i].op = "syncPendingExpenses"
    /\ inflight[i].pc = "render"
    /\ inflight' = Remove(inflight, i)
    /\ last' = [NoCall EXCEPT !.op = "syncRender", !.id = i]
    /\ UNCHANGED <<tripNames, backup, trips, activeTripId, settings, categories, cashBatches, fxRates,
                   expenses, usedIds, online>>

\* A call of addExpense for a cash expense: the await it is suspended at
\* (pc "loadSettings" or "pickCashBatch"), its arguments, the trip that
\* was active when loadSettings built its key (settingsTrip) and the trip
\* that was active when pickCashBatchFor asked for the batches
\* (batchTrip).
AddRequest(pc, id, date, currency, categoryId, amountLocalCents, settingsTrip, batchTrip) ==
    [op |-> "addExpense", pc |-> pc, id |-> id, date |-> date,
     currency |-> currency, categoryId |-> categoryId,
     amountLocalCents |-> amountLocalCents, settingsTrip |-> settingsTrip,
     batchTrip |-> batchTrip]

\* The record addExpense puts for a cash expense: tripId is the trip that
\* is active when the put is called.
CashExpense(req, baseAmountCents, fxRatePpm, fxSource, cashBatchId) ==
    [id |-> req.id, tripId |-> activeTripId, date |-> req.date,
     currency |-> req.currency, method |-> "cash",
     categoryId |-> req.categoryId,
     amountLocalCents |-> req.amountLocalCents,
     baseAmountCents |-> baseAmountCents, fxRatePpm |-> fxRatePpm,
     fxSource |-> fxSource, cashBatchId |-> cashBatchId]

\* The expense form is submitted for a cash expense: addExpense is called
\* and suspends at its loadSettings.
AddCashExpenseSubmit(id, date, currency, categoryId, amountLocal) ==
    /\ id \notin usedIds
    /\ \A j \in DOMAIN inflight : inflight[j].op = "addExpense" => inflight[j].id # id
    /\ Len(inflight) < MaxInFlight
    /\ inflight' = Append(inflight,
                          AddRequest("loadSettings", id, date, ToUpperCase(currency),
                                     categoryId, ToCents(amountLocal),
                                     activeTripId, Null))
    /\ last' = [NoCall EXCEPT !.op = "addExpenseSubmit", !.id = id]
    /\ UNCHANGED <<tripNames, backup, trips, activeTripId, settings, categories, cashBatches, fxRates,
                   expenses, usedIds, online>>

\* loadSettings answers: in the home currency the expense is put at once;
\* otherwise pickCashBatchFor is called and the call suspends at its
\* indexGetAllKey.
AddCashExpenseLoaded(i) ==
    /\ i \in DOMAIN inflight
    /\ inflight[i].op = "addExpense"
    /\ inflight[i].pc = "loadSettings"
    /\ LET req == inflight[i]
           loaded == NormalizeSettings(IF req.settingsTrip \in DOMAIN settings
                                       THEN settings[req.settingsTrip]
                                       ELSE NoSettings)
       IN IF req.currency = ToUpperCase(loaded.homeCurrency)
          THEN /\ expenses' = expenses \cup
                     {CashExpense(req, req.amountLocalCents, PPM, "identity", Null)}
               /\ usedIds' = usedIds \cup {req.id}
               /\ inflight' = Remove(inflight, i)
               /\ last' = [NoCall EXCEPT !.op = "addExpense", !.id = req.id]
          ELSE /\ inflight' = [inflight EXCEPT ![i] =
                                  [req EXCEPT !.pc = "pickCashBatch",
                                              !.batchTrip = activeTripId]]
               /\ last' = [NoCall EXCEPT !.op = "addExpenseLoaded", !.id = req.id]
               /\ UNCHANGED <<expenses, usedIds>>
    /\ UNCHANGED <<tripNames, backup, trips, activeTripId, settings, categories, cashBatches, fxRates,
                   online>>

\* pickCashBatchFor answers: without a batch addExpense throws, with one
\* it puts the expense.
AddCashExpensePicked(i) ==
    /\ i \in DOMAIN inflight
    /\ inflight[i].op = "addExpense"
    /\ inflight[i].pc = "pickCashBatch"
    /\ LET req == inflight[i]
           batch == PickCashBatchFor(cashBatches, req.batchTrip, req.date, req.currency)
       IN IF batch = NoBatch
          THEN /\ last' = [NoCall EXCEPT !.op = "addExpense", !.id = req.id,
                                         !.outcome = "No cash batch found"]
               /\ UNCHANGED <<expenses, usedIds>>
          ELSE /\ expenses' = expenses \cup
                     {CashExpense(req, Round(req.amountLocalCents * batch.ratePpm, PPM),
                                  batch.ratePpm, "cashBatch", batch.id)}
               /\ usedIds' = usedIds \cup {req.id}
               /\ last' = [NoCall EXCEPT !.op = "addExpense", !.id = req.id]
    /\ inflight' = Remove(inflight, i)
    /\ UNCHANGED <<tripNames, backup, trips, activeTripId, settings, categories, cashBatches, fxRates,
                   online>>

\* A category request: the #addCategory click handler or renameCategory,
\* suspended at its listCategories (pc "list") or at its put (pc "put",
\* record being the object it puts).
NoCategory == [id |-> Null, name |-> "", tripId |-> Null]
CategoryRequest(op, pc, id, name, tripId, record) ==
    [op |-> op, pc |-> pc, id |-> id, name |-> name, tripId |-> tripId,
     record |-> record]

\* #addCategory is clicked with a name typed: the handler suspends at
\* listCategories.
AddCategoryClick(id, input) ==
    /\ Len(inflight) < MaxInFlight
    /\ Trim(input) # ""
    /\ \A c \in categories : c.id # id
    /\ \A i \in DOMAIN inflight : inflight[i].id # id
    /\ inflight' = Append(inflight,
                          CategoryRequest("addCategory", "list", id, Trim(input),
                                          activeTripId, NoCategory))
    /\ last' = [NoCall EXCEPT !.op = "addCategoryClick", !.id = id, !.name = input]
    /\ UNCHANGED <<tripNames, backup, trips, activeTripId, settings, categories, cashBatches, fxRates,
                   expenses, usedIds, online>>

\* The Rename button of a listed category is clicked and a name is typed
\* at the prompt: renameCategory suspends at listCategories.
RenameClick(id, input) ==
    /\ Len(inflight) < MaxInFlight
    /\ Trim(input) # ""
    /\ \E c \in ListCategories(categories, activeTripId) : c.id = id
    /\ inflight' = Append(inflight,
                          CategoryRequest("renameCategory", "list", id, Trim(input),
                                          activeTripId, NoCategory))
    /\ last' = [NoCall EXCEPT !.op = "renameClick", !.id = id, !.name = input]
    /\ UNCHANGED <<tripNames, backup, trips, activeTripId, settings, categories, cashBatches, fxRates,
                   expenses, usedIds, online>>

\* listCategories answers a request: the name is checked against what is
\* stored now; the request ends with a message or goes on to its put.
CategoryList(i) ==
    /\ i \in DOMAIN inflight
    /\ inflight[i].op \in {"addCategory", "renameCategory"}
    /\ inflight[i].pc = "list"
    /\ LET r == inflight[i]
           listed == ListCategories(categories, r.tripId)
           taken == \E c \in listed :
                       /\ ToLowerCase(c.name) = ToLowerCase(r.name)
                       /\ (r.op = "renameCategory" => c.id # r.id)
           missing == r.op = "renameCategory" /\ ~ \E c \in listed : c.id = r.id
           record == IF r.op = "addCategory"
                     THEN [id |-> r.id, name |-> r.name, tripId |-> activeTripId]
                     ELSE [(CHOOSE c \in listed : c.id = r.id) EXCEPT !.name = r.name]
       IN /\ inflight' = IF taken \/ missing THEN Remove(inflight, i)
                         ELSE [inflight EXCEPT ![i] =
                                 CategoryRequest(r.op, "put", r.id, r.name, r.tripId,
                                                 record)]
          /\ last' = [NoCall EXCEPT
                        !.op = "categoryList", !.id = r.id, !.name = r.name,
                        !.outcome = IF taken
                                    THEN "A category with that name already exists."
                                    ELSE IF missing THEN "Category not found"
                                    ELSE "ok"]
    /\ UNCHANGED <<tripNames, backup, trips, activeTripId, settings, categories, cashBatches, fxRates,
                   expenses, usedIds, online>>

\* The put of a request is carried out and the request ends.
CategoryPut(i) ==
    /\ i \in DOMAIN inflight
    /\ inflight[i].op \in {"addCategory", "renameCategory"}
    /\ inflight[i].pc = "put"
    /\ categories' = {c \in categories : c.id # inflight[i].id}
                         \cup {inflight[i].record}
    /\ inflight' = Remove(inflight, i)
    /\ last' = [NoCall EXCEPT !.op = "categoryPut", !.id = inflight[i].id,
                              !.name = inflight[i].name]
    /\ UNCHANGED <<tripNames, backup, trips, activeTripId, settings, cashBatches, fxRates,
                   expenses, usedIds, online>>

RateNext ==
    \E d \in RateDates, c \in Currencies :
       \E resp \in Responses(d, c) \ (Failures \ {NetError}) :
          GetOrFetchRateCall(d, c, resp)

SpecRate == Init /\ [][RateNext]_vars

FetchNext ==
    \/ \E d \in RateDates, c \in Currencies :
         \E resp \in Responses(d, c) : FetchAndCacheRateCall(d, c, resp, "ok")
    \/ \E d \in RateDates, c \in Currencies :
         \E resp \in {r \in Responses(d, c) : r.date = d},
            io \in {"settingsFail", "putFail"} :
            FetchAndCacheRateCall(d, c, resp, io)

SpecFetch == Init /\ [][FetchNext]_vars

\* ------------------------------------------------------------ The ledger
\* The summary drawn after each handler converts the total with
\* getOrFetchRate when the display currency differs from the home currency;
\* that lookup is the GetOrFetchRateCall step of the rate store and is not
\* repeated in the ledger's steps.
Dates == 1..MaxDate
LedgerCurrencies == {"CAD", "EUR"}
Amounts == {10000}
Fees == {0, DefaultFee}
ActiveCategories == {c.id : c \in {x \in categories : x.tripId = activeTripId}}
Answers(d, c) == Responses(d, c) \ (Failures \ {NetError})
\* The answers that can make a difference: a cash expense asks for no
\* rate, and the second request is made only when connected and the first
\* lookup found nothing.
FirstAnswers(d, c, m) == IF m = "cash" THEN {NetError} ELSE Answers(d, c)
SecondAnswers(d, c, r1) ==
    IF online /\ GetOrFetchRate(fxRates, d, c, r1).result = NoRate
    THEN Answers(d, c) ELSE {NetError}

Next ==
    \/ \E h \in LedgerCurrencies, f \in Fees : SaveSettings(h, f)
    \/ \E id \in 1..MaxLedgerBatches, d \in Dates, c \in LedgerCurrencies :
          AddCashBatch(id, d, c, CashQuote(d, c))
    \/ \E id \in 1..MaxLedgerExpenses, d \in Dates, c \in LedgerCurrencies, m \in Methods,
          k \in ActiveCategories, a \in Amounts :
          \E r1 \in FirstAnswers(d, c, m) :
             \E r2 \in SecondAnswers(d, c, r1) :
                AddExpense(id, d, c, m, k, a, r1, r2)
    \/ \E id \in 1..MaxLedgerExpenses, d \in Dates, c \in LedgerCurrencies, m \in Methods,
          k \in ActiveCategories, a \in Amounts :
          \E r1 \in FirstAnswers(d, c, m) :
             \E r2 \in SecondAnswers(d, c, r1) :
                UpdateExpense(id, d, c, m, k, a, r1, r2)
    \/ \E id \in 1..MaxLedgerExpenses : DeleteExpense(id)
    \/ GoOnline
    \/ GoOffline

Spec == Init /\ [][Next]_vars

\* ----------------------------------------------------- Cash expenses
CashNext ==
    \/ \E h \in LedgerCurrencies, f \in Fees : SaveSettings(h, f)
    \/ \E id \in 1..MaxLedgerBatches, d \in Dates, c \in LedgerCurrencies :
          AddCashBatch(id, d, c, CashQuote(d, c))
    \/ \E id \in 1..MaxLedgerExpenses, d \in Dates, c \in LedgerCurrencies,
          k \in ActiveCategories, a \in Amounts :
          AddExpense(id, d, c, "cash", k, a, NetError, NetError)
    \/ \E id \in 1..MaxLedgerExpenses, d \in Dates, c \in LedgerCurrencies,
          k \in ActiveCategories, a \in Amounts :
          UpdateExpense(id, d, c, "cash", k, a, NetError, NetError)

SpecCash == Init /\ [][CashNext]_vars

\* ----------------------------------------- Credit expenses and the sync
CreditAmounts == {10000, 3330}

CreditNext ==
    \/ \E id \in 1..MaxExpenses, d \in Dates, c \in LedgerCurrencies,
          k \in ActiveCategories, a \in CreditAmounts :
          \E r1 \in FirstAnswers(d, c, "credit") :
             \E r2 \in SecondAnswers(d, c, r1) :
                AddExpense(id, d, c, "credit", k, a, r1, r2)
    \/ \E id \in 1..MaxExpenses : DeleteExpense(id)
    \/ GoOnline
    \/ GoOffline

SpecCredit == Init /\ [][CreditNext]_vars

\* ------------------------------------------------- Reconciliation
\* Credit expenses added connected or not, the home currency changing,
\* and passes of syncPendingExpenses in which the storage may reject a
\* put.
SyncNext ==
    \/ \E h \in LedgerCurrencies : SaveSettings(h, DefaultFee)
    \/ \E id \in 1..MaxExpenses, d \in Dates, c \in {"EUR"},
          k \in ActiveCategories, a \in Amounts :
          \E r1 \in FirstAnswers(d, c, "credit") :
             \E r2 \in SecondAnswers(d, c, r1) :
                AddExpense(id, d, c, "credit", k, a, r1, r2)
    \/ OnlineEvent({"ok", "putFail"})
    \/ GoOffline

SpecSync == Init /\ [][SyncNext]_vars

\* ------------------------------------ Reconciliation when connected
\* The connection comes back whenever it is lost, and the browser then
\* runs the online listener: the online event is weakly fair.
LiveNext ==
    \/ \E id \in 1..MaxExpenses, d \in Dates, c \in {"EUR"},
          k \in ActiveCategories, a \in Amounts :
          \E r1 \in FirstAnswers(d, c, "credit") :
             \E r2 \in SecondAnswers(d, c, r1) :
                AddExpense(id, d, c, "credit", k, a, r1, r2)
    \/ GoOnline
    \/ GoOffline
    \/ Startup({"ok"})

SpecLive == Init /\ [][LiveNext]_vars /\ WF_vars(GoOnline)

\* ------------------------------------------------------ Cash batch choice
PickDates == 1..MaxPickDate

PickNext ==
    \/ \E id \in 1..MaxTrips : CreateTrip(id)
    \/ \E id \in 1..MaxTrips : SelectTrip(id)
    \/ \E id \in 1..MaxBatches, d \in PickDates, c \in Currencies \ {"CAD"} :
          AddCashBatch(id, d, c, CashQuote(d, c))
    \/ \E d \in PickDates, c \in Currencies \ {"CAD"} : PickCashBatchForCall(d, c)

SpecPick == Init /\ [][PickNext]_vars

\* ------------------------------------- Cash batches and their expenses
\* The id of a deleted batch is free again: deleteCashBatch is the only
\* way a batch goes, and it leaves none that the active trip's expenses
\* name.
LedgerTrips == {1, 2}

BatchNext ==
    \/ \E id \in LedgerTrips : CreateTrip(id)
    \/ \E id \in LedgerTrips : SelectTrip(id)
    \/ \E id \in 1..MaxLedgerBatches, d \in Dates, c \in LedgerCurrencies :
          AddCashBatch(id, d, c, CashQuote(d, c))
    \/ \E id \in 1..MaxLedgerBatches : DeleteCashBtn(id)
    \/ \E id \in 1..MaxLedgerExpenses, d \in Dates, c \in LedgerCurrencies,
          k \in ActiveCategories, a \in Amounts :
          AddExpense(id, d, c, "cash", k, a, NetError, NetError)
    \/ \E id \in 1..MaxLedgerExpenses, d \in Dates, c \in LedgerCurrencies,
          k \in ActiveCategories, a \in Amounts :
          UpdateExpense(id, d, c, "cash", k, a, NetError, NetError)
    \/ \E id \in 1..MaxLedgerExpenses : DeleteExpense(id)

SpecBatch == Init /\ [][BatchNext]_vars

\* The same with the batches edited, in one trip.
BatchEditNext ==
    \/ \E id \in 1..MaxLedgerBatches, d \in Dates, c \in LedgerCurrencies :
          AddCashBatch(id, d, c, CashQuote(d, c))
    \/ \E id \in 1..MaxLedgerBatches : DeleteCashBtn(id)
    \/ \E id \in 1..MaxLedgerBatches, d \in Dates, c \in LedgerCurrencies :
          SaveCashBtn(id, d, c, CashQuote(d, c))
    \/ \E id \in 1..MaxLedgerExpenses, d \in Dates, c \in LedgerCurrencies,
          k \in ActiveCategories, a \in Amounts :
          AddExpense(id, d, c, "cash", k, a, NetError, NetError)
    \/ \E id \in 1..MaxLedgerExpenses, d \in Dates, c \in LedgerCurrencies,
          k \in ActiveCategories, a \in Amounts :
          UpdateExpense(id, d, c, "cash", k, a, NetError, NetError)
    \/ \E id \in 1..MaxLedgerExpenses : DeleteExpense(id)

SpecBatchEdit == Init /\ [][BatchEditNext]_vars

\* ------------------------------------------------------------- Redisplay
\* Amounts in base cents redisplayed in the home currency or in another
\* one, as of a day or of today, the provider answering or not.
BaseAmounts == {0, 1000, 1357}

ConvertNext ==
    \E b \in BaseAmounts, c \in {"CAD", "USD"}, e \in {NoDate} \cup RateDates,
       t \in {MaxRateDate} :
       \E resp \in Responses(IF e # NoDate THEN e ELSE t, c) \ (Failures \ {NetError}) :
          ConvertBaseToTargetCentsCall(b, c, e, t, resp)

SpecConvert == Init /\ [][ConvertNext]_vars

\* ------------------------------------------------------------------ Page
\* Credit expenses of two categories, some of them pending, and the page
\* rendered in the home currency or in another one.
MaxCategories == 2
PageAmounts == {1000, 2210}
\* The provider's answers to the requests of one render: all of them
\* given, none, or all but one.  The home currency is never asked for.
PageAnswers(d, c) ==
    IF c = LoadSettings.homeCurrency
    THEN {[i \in 1..(MaxCategories + 2) |-> NetError]}
    ELSE {[i \in 1..(MaxCategories + 2) |-> IF i \in failed THEN NetError ELSE r] :
             r \in {x \in Responses(d, c) : x.date = d},
             failed \in {{}, 1..(MaxCategories + 2)}
                         \cup {{i} : i \in 1..(MaxCategories + 2)}}
             \cup {[i \in 1..(MaxCategories + 2) |-> NetError]}

PageNext ==
    \/ \E id \in 1..MaxCategories : AddCategory(id, "Taxi")
    \/ \E id \in 1..MaxExpenses, c \in {"EUR"}, k \in ActiveCategories,
          a \in PageAmounts :
          \E r1 \in FirstAnswers(MaxDate, c, "credit") :
             AddExpense(id, MaxDate, c, "credit", k, a, r1, NetError)
    \/ GoOffline
    \/ GoOnline
    \/ \E c \in {"CAD", "USD"}, e \in {NoDate, MaxDate} :
          \E resps \in PageAnswers(MaxDate, c) :
             RenderCall(NoDate, e, c, MaxDate, resps)

SpecPage == Init /\ [][PageNext]_vars

\* ---------------------------------------------------------------- Frame
\* A credit expense stored, settled or pending, and then the settings
\* saved with another fee or home currency, the page rendered with
\* another filter or display currency, and amounts redisplayed.
FrameNext ==
    \/ \E id \in 1..MaxLedgerExpenses, k \in ActiveCategories, a \in Amounts :
          \E r1 \in FirstAnswers(MaxDate, "EUR", "credit") :
             AddExpense(id, MaxDate, "EUR", "credit", k, a, r1, NetError)
    \/ \E h \in LedgerCurrencies, f \in Fees : SaveSettings(h, f)
    \/ \E c \in {"CAD", "USD"}, e \in {NoDate, MaxDate} :
          \E resps \in {f \in PageAnswers(MaxDate, c) : \A i \in DOMAIN f : f[i] = f[1]} :
             RenderCall(e, e, c, MaxDate, resps)
    \/ \E b \in {1000}, c \in {"CAD", "USD"} :
          \E resp \in Responses(MaxDate, c) \ (Failures \ {NetError}) :
             ConvertBaseToTargetCentsCall(b, c, NoDate, MaxDate, resp)

SpecFrame == Init /\ [][FrameNext]_vars

\* ------------------------------------------------- Rates and home currency
\* getOrFetchRate calls of two trips whose home currency is set and
\* changed.
HomeNext ==
    \/ \E id \in LedgerTrips : CreateTrip(id)
    \/ \E id \in LedgerTrips : SelectTrip(id)
    \/ \E h \in {"CAD", "USD"} : SaveSettings(h, DefaultFee)
    \/ \E d \in Dates, c \in {"EUR", "CAD"} :
          \E resp \in Responses(d, c) \ (Failures \ {NetError}) :
             GetOrFetchRateCall(d, c, resp)

SpecHome == Init /\ [][HomeNext]_vars

\* ------------------------------------------------------------ Rate cache
\* Credit expenses of two trips added, edited, deleted and reconciled,
\* the page rendered, the settings saved, trips deleted, and a backup
\* exported once and imported.
CacheExpenses == {1}

CacheNext ==
    \/ \E id \in LedgerTrips : CreateTrip(id)
    \/ \E id \in LedgerTrips : SelectTrip(id)
    \/ \E ok \in BOOLEAN : DeleteTripBtn(ok)
    \/ \E h \in LedgerCurrencies : SaveSettings(h, DefaultFee)
    \/ \E id \in CacheExpenses, k \in ActiveCategories :
          \E r1 \in Answers(1, "EUR") :
             AddExpense(id, 1, "EUR", "credit", k, 10000, r1, NetError)
    \/ \E id \in CacheExpenses, k \in ActiveCategories :
          \E r1 \in Answers(1, "USD") :
             UpdateExpense(id, 1, "USD", "credit", k, 10000, r1, NetError)
    \/ \E id \in CacheExpenses : DeleteExpense(id)
    \/ GoOnline
    \/ GoOffline
    \/ \E resp \in Answers(1, "USD") :
          ConvertBaseToTargetCentsCall(1000, "USD", 1, MaxDate, resp)
    \/ (~backup.exported /\ ExportBackup)
    \/ \E wipe \in BOOLEAN : ImportBackupFile(wipe)

SpecCache == Init /\ [][CacheNext]_vars

\* ------------------------------------------------------------ Categories
\* The categories of two trips added and renamed.
CategoryIds == (SetMax(LedgerTrips) + 1)..(SetMax(LedgerTrips) + MaxCategories)
CategoryInputs == {"Taxi", "meals", "MEALS", "  "}

CategoryNext ==
    \/ \E id \in LedgerTrips : CreateTrip(id)
    \/ \E id \in LedgerTrips : SelectTrip(id)
    \/ \E id \in CategoryIds, n \in CategoryInputs : AddCategory(id, n)
    \/ \E id \in LedgerTrips \cup CategoryIds, n \in CategoryInputs : RenameBtn(id, n)

SpecCategory == Init /\ [][CategoryNext]_vars

\* ----------------------------------------------------- Category deletion
\* Categories of two trips added and deleted while expenses name them.
DeleteNext ==
    \/ \E id \in LedgerTrips : CreateTrip(id)
    \/ \E id \in LedgerTrips : SelectTrip(id)
    \/ \E id \in CategoryIds : AddCategory(id, "Taxi")
    \/ \E id \in 1..MaxExpenses, k \in ActiveCategories :
          AddExpense(id, MaxDate, "CAD", "credit", k, 10000, NetError, NetError)
    \/ \E id \in LedgerTrips \cup CategoryIds, n \in {"", "Meals", "taxi"},
          ok \in BOOLEAN :
          DeleteBtn(id, n, ok)

SpecDelete == Init /\ [][DeleteNext]_vars

\* ----------------------------------------------------------- User input
\* Trips, categories and expenses made and changed with blank names and
\* with amounts that are not numbers among the inputs.
TripNameInputs == {"", "  ", "Rome"}
CategoryNameInputs == {"", "  ", "Taxi"}
InputAmounts == {10000, NaN}

InputNext ==
    \/ \E id \in LedgerTrips, n \in TripNameInputs : CreateTripCall(id, n)
    \/ \E id \in LedgerTrips : SelectTrip(id)
    \/ \E id \in LedgerTrips, n \in TripNameInputs : RenameTripCall(id, n)
    \/ \E n \in CategoryNameInputs : AddCategory(SetMin(CategoryIds), n)
    \/ \E id \in LedgerTrips \cup CategoryIds, n \in CategoryNameInputs \ {""} :
          RenameBtn(id, n)
    \/ \E id \in 1..MaxLedgerExpenses, c \in LedgerCurrencies, k \in ActiveCategories,
          a \in InputAmounts :
          \E r1 \in Answers(MaxDate, c) :
             AddExpense(id, MaxDate, c, "credit", k, a, r1, NetError)
    \/ \E id \in 1..MaxLedgerExpenses, c \in LedgerCurrencies, k \in ActiveCategories,
          a \in InputAmounts :
          \E r1 \in Answers(MaxDate, c) :
             UpdateExpense(id, MaxDate, c, "credit", k, a, r1, NetError)

SpecInput == Init /\ [][InputNext]_vars

\* ------------------------------------------------------------------ Trips
\* Two trips created, selected and deleted, each with settings, a
\* category, cash batches and expenses of its own.
TripsNext ==
    \/ \E id \in LedgerTrips : CreateTrip(id)
    \/ \E id \in LedgerTrips : SelectTrip(id)
    \/ \E ok \in BOOLEAN : DeleteTripBtn(ok)
    \/ \E h \in LedgerCurrencies : SaveSettings(h, DefaultFee)
    \/ \E id \in 1..MaxLedgerBatches : AddCashBatch(id, 1, "EUR", CashQuote(1, "EUR"))
    \/ \E id \in 1..MaxExpenses, m \in Methods, k \in ActiveCategories :
          \E r1 \in FirstAnswers(1, "EUR", m) :
             AddExpense(id, 1, "EUR", m, k, 10000, r1, NetError)

SpecTrips == Init /\ [][TripsNext]_vars

\* The trips and the active trip across creation, selection, deletion,
\* settings saves, later visits, and imports of the exported file and of
\* a file without records.
ActiveNext ==
    \/ \E id \in LedgerTrips : CreateTrip(id)
    \/ \E id \in LedgerTrips : SelectTrip(id)
    \/ \E ok \in BOOLEAN : DeleteTripBtn(ok)
    \/ \E h \in LedgerCurrencies : SaveSettings(h, DefaultFee)
    \/ (~backup.exported /\ ExportBackup)
    \/ \E wipe \in BOOLEAN : ImportBackupFile(wipe)
    \/ \E wipe \in BOOLEAN : ImportEmptyBackup(wipe)
    \/ \E id \in LedgerTrips : EnsureDefaults(id)

SpecActive == Init /\ [][ActiveNext]_vars

\* ------------------------------------------------------------ Edits
\* Expenses of one trip added, edited and deleted, connected or not, with
\* and without a cash batch, and edits of expenses that are not stored.
EditNext ==
    \/ \E id \in 1..MaxLedgerBatches : AddCashBatch(id, MaxDate, "EUR", CashQuote(MaxDate, "EUR"))
    \/ \E id \in CacheExpenses, m \in Methods, k \in ActiveCategories :
          \E r1 \in FirstAnswers(MaxDate, "CAD", m) :
             AddExpense(id, MaxDate, "CAD", m, k, 10000, r1, NetError)
    \/ \E id \in CacheExpenses, d \in {1, MaxDate}, c \in LedgerCurrencies, m \in Methods,
          k \in ActiveCategories, a \in InputAmounts :
          \E r1 \in FirstAnswers(d, c, m) :
             \E r2 \in SecondAnswers(d, c, r1) :
                UpdateExpenseCall(id, d, c, m, k, a, r1, r2)
    \/ \E id \in CacheExpenses : DeleteExpense(id)
    \/ GoOnline
    \/ GoOffline

SpecEdit == Init /\ [][EditNext]_vars

\* -------------------------------------------------------- Settings records
\* The settings form filled in and submitted, the settings loaded, and
\* the records of earlier versions normalized.
HomeTexts == {<<"c", "a", "d">>, <<" ", "u", "s", "d", " ">>, <<"u", "s">>, <<>>}
TripTexts == {<<"e", "u", "r", ",", " ", "u", "s", "d">>,
              <<"e", "u", "r", ",", "E", "U", "R", ",", " ">>,
              <<"e", "u", "r", "o", ",", " ", "u", "s">>,
              <<>>}
RawSettings ==
    {NoSettings,
     [homeCurrency |-> "cad", tripCurrency |-> "eur", ccFeePercent |-> 0],
     [homeCurrency |-> "USD", tripCurrency |-> "eur"],
     [homeCurrency |-> "USD", tripCurrency |-> ""],
     [homeCurrency |-> "CAD", tripCurrencies |-> <<>>, ccFeePercent |-> DefaultFee],
     [homeCurrency |-> "", tripCurrencies |-> <<"eur", "USD">>, ccFeePercent |-> 0],
     [homeCurrency |-> "", tripCurrencies |-> <<>>],
     [homeCurrency |-> "usd", tripCurrencies |-> <<"">>]}

SettingsNext ==
    \/ \E h \in HomeTexts, t \in TripTexts, f \in Fees : SettingsFormSubmit(h, t, f)
    \/ LoadSettingsCall
    \/ \E raw \in RawSettings : NormalizeSettingsCall(raw)

SpecSettings == Init /\ [][SettingsNext]_vars

\* ---------------------------------------------- Overlapping requests
\* Category names added and changed by requests that run from await to
\* await, a second one starting before the first has written.
RaceNext ==
    \/ \E id \in CategoryIds, n \in CategoryInputs : AddCategoryClick(id, n)
    \/ \E id \in {1} \cup CategoryIds, n \in CategoryInputs : RenameClick(id, n)
    \/ \E i \in 1..MaxInFlight : CategoryList(i)
    \/ \E i \in 1..MaxInFlight : CategoryPut(i)

SpecRace == Init /\ [][RaceNext]_vars

\* ------------------------------------------------- Overlapping passes
\* Credit expenses added connected or not, the connection lost and found
\* again, and the passes of syncPendingExpenses that the online listener
\* starts, each running from await to await.
OverlapNext ==
    \/ \E id \in 1..MaxExpenses, d \in {MaxDate}, c \in {"EUR"},
          k \in ActiveCategories, a \in Amounts :
          \E r1 \in FirstAnswers(d, c, "credit") :
             \E r2 \in SecondAnswers(d, c, r1) :
                AddExpense(id, d, c, "credit", k, a, r1, r2)
    \/ GoOffline
    \/ OnlineListener
    \/ \E i \in 1..MaxInFlight : SyncGetAll(i)
    \/ \E i \in 1..MaxInFlight,
          resp \in ProviderResponses(MaxDate, "EUR", "CAD") \ (Failures \ {NetError}) :
          SyncIteration(i, resp, "ok")
    \/ \E i \in 1..MaxInFlight : SyncRender(i)

SpecOverlap == Init /\ [][OverlapNext]_vars

\* ------------------------------------- A pass beside the user's actions
\* Passes of syncPendingExpenses running from await to await while the
\* user adds, edits and deletes an expense, records a cash batch and
\* switches between two trips.
FlightNext ==
    \/ \E id \in LedgerTrips : CreateTrip(id)
    \/ \E id \in LedgerTrips : SelectTrip(id)
    \/ \E id \in 1..MaxLedgerBatches : AddCashBatch(id, 1, "EUR", CashQuote(1, "EUR"))
    \/ \E id \in 1..MaxLedgerExpenses, k \in ActiveCategories :
          \E r1 \in FirstAnswers(1, "EUR", "credit") :
             AddExpense(id, 1, "EUR", "credit", k, 10000, r1, NetError)
    \/ \E id \in 1..MaxLedgerExpenses, d \in Dates, m \in Methods, k \in ActiveCategories :
          \E r1 \in FirstAnswers(d, "EUR", m) :
             UpdateExpense(id, d, "EUR", m, k, 10000, r1, NetError)
    \/ \E id \in 1..MaxLedgerExpenses : DeleteExpense(id)
    \/ GoOffline
    \/ OnlineListener
    \/ \E i \in 1..MaxInFlight : SyncGetAll(i)
    \/ \E i \in 1..MaxInFlight,
          resp \in ProviderResponses(1, "EUR", "CAD") \ (Failures \ {NetError}) :
          SyncIteration(i, resp, "ok")
    \/ \E i \in 1..MaxInFlight : SyncRender(i)

SpecFlight == Init /\ [][FlightNext]_vars

\* --------------------------------- A cash expense beside a trip switch
\* Cash expenses added by calls of addExpense that run from await to
\* await while the user records cash batches, changes the home currency
\* and switches between two trips.
SuspendNext ==
    \/ \E id \in LedgerTrips : CreateTrip(id)
    \/ \E id \in LedgerTrips : SelectTrip(id)
    \/ \E h \in LedgerCurrencies : SaveSettings(h, DefaultFee)
    \/ \E id \in 1..MaxLedgerBatches : AddCashBatch(id, 1, "EUR", CashQuote(1, "EUR"))
    \/ \E id \in 1..MaxLedgerExpenses, k \in ActiveCategories :
          AddCashExpenseSubmit(id, 1, "EUR", k, 10000)
    \/ \E i \in 1..MaxInFlight : AddCashExpenseLoaded(i)
    \/ \E i \in 1..MaxInFlight : AddCashExpensePicked(i)

SpecSuspend == Init /\ [][SuspendNext]_vars

\* ------------------------------------------------- Rate store properties
Range(f) == {f[i] : i \in DOMAIN f}
Home == ToUpperCase(LoadSettings.homeCurrency)
RowsHolding(fx, cur) == {d \in DOMAIN fx : fx[d].rates[cur] # 0}
\* The call in last went through a failed fetch to the cached rows.
FellBack == last.op = "getOrFetchRate" /\ "getAll" \in Range(last.steps)

\* C5: with the fetch failing and every cached row holding a rate for the
\* (foreign) currency, getOrFetchRate(D, cur) for a D with no row of its
\* own returns the rate of the latest row dated before D (so D4 > D3 gives
\* the D3 rate and D2 < D < D3 gives the D2 rate, never the D3 rate), and
\* the rate of the oldest row when every row is dated after D.
C5_BackwardFallback ==
    (/\ FellBack
     /\ last.currency # Home
     /\ DOMAIN fxRates # {}
     /\ RowsHolding(fxRates, last.currency) = DOMAIN fxRates)
    => LET before == {d \in DOMAIN fxRates : d < last.date}
           row == IF before # {} THEN SetMax(before) ELSE SetMin(DOMAIN fxRates)
       IN /\ last.date \notin DOMAIN fxRates
          /\ last.result = [ppm |-> fxRates[row].rates[last.currency],
                            source |-> "frankfurter"]
          /\ \A d \in DOMAIN fxRates \ {row} :
                fxRates[d].rates[last.currency] # last.result.ppm

\* Rows D1 < D2 < D3 all holding the currency, a request dated between D2
\* and D3 answered with the D2 rate.
C5_Witness ==
    /\ FellBack
    /\ last.currency = "EUR"
    /\ Home = "CAD"
    /\ DOMAIN fxRates = {1, 2, 4}
    /\ RowsHolding(fxRates, "EUR") = {1, 2, 4}
    /\ last.date = 3
    /\ last.result.ppm = fxRates[2].rates["EUR"]

\* C6: getOrFetchRate resolves in a fixed order.  For the home currency:
\* identity, no provider call, no access to fxRates.  Otherwise an exact
\* row for the date is returned without a provider call; otherwise a
\* successful fetch is returned (and cached) without looking at older
\* rows; getFxRowAtOrBefore is consulted only after the fetch has failed.
C6_Step ==
    (last'.op = "getOrFetchRate") =>
      LET cur == last'.currency
          exact == GetFxRatePpmExact(fxRates, last'.date, cur)
      IN IF cur = Home
         THEN /\ last'.result = Identity
              /\ last'.steps = <<>>
              /\ fxRates' = fxRates
         ELSE IF exact # Null
         THEN /\ last'.result = [ppm |-> exact, source |-> "frankfurter"]
              /\ last'.steps = <<"get">>
              /\ fxRates' = fxRates
         ELSE IF last'.resp = "ok"
         THEN /\ last'.result = [ppm |-> fxRates'[last'.respDate].rates[cur],
                                 source |-> "frankfurter"]
              /\ last'.steps = <<"get", "fetch", "get", "put">>
         ELSE /\ last'.steps = <<"get", "fetch", "getAll">>
              /\ fxRates' = fxRates

C6_ResolutionOrder == [][C6_Step]_vars

\* A successful fetch preferred to an older cached row of the currency.
C6_Witness ==
    /\ last.op = "getOrFetchRate"
    /\ last.currency = "EUR"
    /\ last.steps = <<"get", "fetch", "get", "put">>
    /\ last.date = 3
    /\ last.respDate = 3
    /\ 1 \in RowsHolding(fxRates, "EUR")
    /\ last.result.ppm # fxRates[1].rates["EUR"]

\* C7 (as claimed): whenever the fetch fails but some cached row holds a
\* rate for the currency, getOrFetchRate returns a rate.
C7_NotFoundOnlyWhenNoRate ==
    (/\ FellBack
     /\ RowsHolding(fxRates, last.currency) # {})
    => last.result # NoRate

\* C8: fetchAndCacheRate never raises; every failure of the provider or of
\* the storage gives null, and a provider failure leaves fxRates as it was.
C8_Step ==
    (last'.op = "fetchAndCacheRate") =>
      /\ last'.outcome = "ok"
      /\ last'.resp # "ok" => last'.result = NoRate
      /\ last'.resp \in {"netError", "httpError", "badJson", "noRate"}
            => fxRates' = fxRates

C8_FetchNeverRaises == [][C8_Step]_vars

\* A fetch whose body could not be parsed, with rows already cached.
C8_Witness ==
    /\ last.op = "fetchAndCacheRate"
    /\ last.resp = "badJson"
    /\ last.result = NoRate
    /\ last.outcome = "ok"
    /\ DOMAIN fxRates # {}

\* C9: a successful fetch for date D answered with date D' writes
\* rates[cur] of the row keyed D' (created if absent), leaves that row's
\* other currencies and every other row unchanged, and neither creates nor
\* changes a row keyed D when D' differs from D.
C9_Step ==
    (/\ last'.op \in {"getOrFetchRate", "fetchAndCacheRate"}
     /\ "put" \in Range(last'.steps))
    => LET cur == last'.currency
           key == last'.respDate
       IN /\ DOMAIN fxRates' = DOMAIN fxRates \cup {key}
          /\ fxRates'[key].rates[cur] = last'.result.ppm
          /\ \A c \in Currencies \ {cur} :
                fxRates'[key].rates[c] =
                    IF key \in DOMAIN fxRates THEN fxRates[key].rates[c] ELSE 0
          /\ \A d \in DOMAIN fxRates \ {key} : fxRates'[d] = fxRates[d]
          /\ key # last'.date =>
                /\ last'.date \in DOMAIN fxRates' <=> last'.date \in DOMAIN fxRates
                /\ last'.date \in DOMAIN fxRates =>
                      fxRates'[last'.date] = fxRates[last'.date]

C9_CachedUnderResponseDate == [][C9_Step]_vars

\* A fetch for day 3 answered with day 2: the rate lands in the existing
\* row 2 beside its USD rate, and there is no row 3.
C9_Witness ==
    /\ last.op = "getOrFetchRate"
    /\ "put" \in Range(last.steps)
    /\ last.date = 3
    /\ last.respDate = 2
    /\ last.currency = "EUR"
    /\ 3 \notin DOMAIN fxRates
    /\ fxRates[2].rates["USD"] # 0
    /\ fxRates[2].rates["EUR"] = last.result.ppm

\* ---------------------------------------------------- Ledger properties
Exp(id) == CHOOSE e \in expenses : e.id = id
\* The call in last stored an expense that is still there.
Wrote == /\ last.op \in {"addExpense", "updateExpense"}
         /\ last.outcome = "ok"
         /\ \E e \in expenses : e.id = last.id
Fee == LoadSettings.ccFeePercent
RECURSIVE SumOfBase(_)
SumOfBase(exps) ==
    IF exps = {} THEN 0
    ELSE LET e == CHOOSE x \in exps : TRUE
         IN e.baseAmountCents + SumOfBase(exps \ {e})

\* C1: when addExpense or updateExpense has stored an expense in the
\* active trip's home currency, cash or credit, whatever the fee, the
\* cached rates and the cash batches, the stored expense has fxRatePpm
\* 1,000,000, fxSource identity and baseAmountCents = amountLocalCents.
C1_IdentityShortCircuit ==
    Wrote =>
       LET e == Exp(last.id)
       IN e.currency = Home =>
             /\ e.fxRatePpm = PPM
             /\ e.fxSource = "identity"
             /\ e.baseAmountCents = e.amountLocalCents

\* A credit expense in the home currency EUR, updated with a 2.5% fee set,
\* rates cached and a cash batch stored.
C1_Witness ==
    /\ Wrote
    /\ last.op = "updateExpense"
    /\ Home = "EUR"
    /\ Fee = DefaultFee
    /\ Exp(last.id).currency = "EUR"
    /\ Exp(last.id).method = "credit"
    /\ Exp(last.id).baseAmountCents = 1000
    /\ DOMAIN fxRates # {}
    /\ cashBatches # {}

\* C2: when addExpense or updateExpense has stored a cash expense in a
\* currency other than the home currency, its cashBatchId names a stored
\* batch, fxRatePpm is that batch's ratePpm, fxSource is cashBatch and
\* baseAmountCents is round(amountLocalCents * batch.ratePpm / 1,000,000),
\* whatever the fee.
C2_CashNeverFeed ==
    Wrote =>
       LET e == Exp(last.id)
       IN (e.method = "cash" /\ e.currency # Home) =>
             \E b \in cashBatches :
                /\ b.id = e.cashBatchId
                /\ e.fxRatePpm = b.ratePpm
                /\ e.fxSource = "cashBatch"
                /\ e.baseAmountCents = Round(e.amountLocalCents * b.ratePpm, PPM)

\* 10.00 EUR in cash against a batch bought at 1.4006, with a 2.5% fee
\* set: 1401 cents.
C2_Witness ==
    /\ Wrote
    /\ Home = "CAD"
    /\ Fee = DefaultFee
    /\ Exp(last.id).method = "cash"
    /\ Exp(last.id).currency = "EUR"
    /\ Exp(last.id).amountLocalCents = 1000
    /\ Exp(last.id).fxRatePpm = 1400600
    /\ Exp(last.id).baseAmountCents = 1401

\* C3: when addExpense stores a credit expense in a foreign currency and
\* the cache held, before the call, a rate ppm for exactly the expense's
\* date and currency, the stored fxRatePpm is ppm (the rate before the
\* fee), fxSource is frankfurter and baseAmountCents is
\* round(amountLocalCents * round(ppm * (1 + fee/100)) / 1,000,000).
C3_Step ==
    \A e \in expenses' \ expenses :
       (/\ last'.op = "addExpense"
        /\ e.id = last'.id
        /\ e.method = "credit"
        /\ e.currency # Home
        /\ GetFxRatePpmExact(fxRates, e.date, e.currency) # Null) =>
          /\ e.fxRatePpm = GetFxRatePpmExact(fxRates, e.date, e.currency)
          /\ e.fxSource = "frankfurter"
          /\ e.baseAmountCents =
                Round(e.amountLocalCents
                         * (e.fxRatePpm + Round(e.fxRatePpm * Fee, FeeScale)), PPM)
C3_CreditExactHit == [][C3_Step]_vars

\* 10.00 EUR by card, added offline on day 1 with 1,450,000 cached for
\* that day (no earlier day exists, so the rate is the day's own) and the
\* fee at 2.5%: 1486 cents.
C3_Witness ==
    /\ Wrote
    /\ last.op = "addExpense"
    /\ ~online
    /\ Fee = DefaultFee
    /\ Exp(last.id).method = "credit"
    /\ Exp(last.id).currency = "EUR"
    /\ Exp(last.id).date = 1
    /\ Exp(last.id).amountLocalCents = 1000
    /\ Exp(last.id).fxRatePpm = 1450000
    /\ Exp(last.id).fxSource = "frankfurter"
    /\ Exp(last.id).baseAmountCents = 1486

\* C4: sumBaseCents over any list of stored expenses is the sum of the
\* baseAmountCents of the ones whose fxSource is not pending (a pending
\* one contributes 0), and a pass of syncPendingExpenses raises the total
\* by exactly the baseAmountCents it stored in the expenses it resolved.
C4_Step ==
    /\ \A list \in SUBSET expenses' :
          SumBaseCents(list) = SumOfBase({e \in list : e.fxSource # "pending"})
    /\ \A e \in expenses' : e.fxSource = "pending" => SumBaseCents({e}) = 0
    /\ last'.op = "syncPendingExpenses" =>
          SumBaseCents(expenses') =
             SumBaseCents(expenses)
             + SumOfBase({e \in expenses' :
                             /\ e.fxSource # "pending"
                             /\ \E p \in expenses :
                                   p.id = e.id /\ p.fxSource = "pending"})
C4_PendingInvisible == [][C4_Step]_vars

\* A pass that resolved one pending expense and left another pending: the
\* total is the resolved one's base.
C4_Witness ==
    /\ last.op = "syncPendingExpenses"
    /\ last.outcome = "resolved"
    /\ \E p \in expenses, e \in expenses :
          /\ p.fxSource = "pending"
          /\ e.fxSource = "frankfurter"
          /\ e.baseAmountCents > 0
          /\ SumBaseCents(expenses) = e.baseAmountCents

\* C10: pickCashBatchFor(date, currency) returns a batch of the active
\* trip with that currency and a date on or before date, none of those
\* batches being dated later than it; it returns none exactly when there
\* is no such batch.
C10_PickLatestAtOrBefore ==
    last.op = "pickCashBatchFor" =>
       LET eligible == {b \in cashBatches : /\ b.tripId = activeTripId
                                            /\ b.currency = last.currency
                                            /\ b.date <= last.date}
       IN IF eligible = {} THEN last.id = Null
          ELSE \E b \in eligible :
                  /\ b.id = last.id
                  /\ \A c \in eligible : c.date <= b.date

\* Batches of EUR bought on days 1 and 3; an expense of day 2 takes the
\* batch of day 1.
C10_Witness ==
    /\ last.op = "pickCashBatchFor"
    /\ last.date = 2
    /\ last.currency = "EUR"
    /\ \E b1 \in cashBatches, b3 \in cashBatches :
          /\ b1.tripId = activeTripId /\ b3.tripId = activeTripId
          /\ b1.currency = "EUR" /\ b3.currency = "EUR"
          /\ b1.date = 1 /\ b3.date = 3
          /\ last.id = b1.id

\* ------------------------------------------- Cash batch properties
\* C11: deleteCashBatch(id) returns false and deletes nothing when an
\* expense of the active trip has cashBatchId = id, and otherwise deletes
\* the batch and returns true; so after any sequence of expense add,
\* update and delete and cash batch add and delete, every stored expense
\* with a non-null cashBatchId names a cash batch that exists.
C11_Step ==
    last'.op = "deleteCashBatch" =>
       IF \E e \in expenses : e.tripId = activeTripId /\ e.cashBatchId = last'.id
       THEN last'.outcome = "false" /\ cashBatches' = cashBatches
       ELSE /\ last'.outcome = "true"
            /\ cashBatches' = {b \in cashBatches : b.id # last'.id}

C11_BatchExists ==
    \A e \in expenses :
       e.cashBatchId # Null => \E b \in cashBatches : b.id = e.cashBatchId

C11_DeleteKeepsReferencedBatch == [][C11_Step /\ C11_BatchExists']_vars

\* A deletion was refused for a batch that a stored cash expense names.
C11_Witness ==
    /\ last.op = "deleteCashBatch"
    /\ last.outcome = "false"
    /\ \E e \in expenses : e.cashBatchId = last.id /\ e.fxSource = "cashBatch"

\* C12: a cash batch is immutable once referenced: while an expense's
\* cashBatchId names a batch, the batch's date, currency and ratePpm do
\* not change, so the stored expense stays consistent with it
\* (fxRatePpm = batch.ratePpm, currency = batch.currency,
\* batch.date <= expense.date).
C12_Step ==
    \A b \in cashBatches :
       (\E e \in expenses : e.cashBatchId = b.id) =>
          \E c \in cashBatches' : /\ c.id = b.id
                                  /\ c.date = b.date
                                  /\ c.currency = b.currency
                                  /\ c.ratePpm = b.ratePpm

C12_Consistent ==
    \A e \in expenses :
       e.cashBatchId # Null =>
          \E b \in cashBatches : /\ b.id = e.cashBatchId
                                 /\ e.fxRatePpm = b.ratePpm
                                 /\ e.currency = b.currency
                                 /\ b.date <= e.date

C12_ReferencedBatchImmutable == [][C12_Step /\ C12_Consistent']_vars

\* ------------------------------------------------- Derivation properties
\* C13: cash conversions are never deferred: addExpense or updateExpense
\* with method cash in a currency other than the home currency and no
\* matching cash batch raises the 'no cash batch found' error and stores
\* nothing, connected or not; no stored cash expense ever has fxSource
\* pending or a null baseAmountCents.
C13_Step ==
    /\ (last'.op \in {"addExpense", "updateExpense"}
        /\ last'.outcome = "No cash batch found") =>
          /\ expenses' = expenses
          /\ usedIds' = usedIds
          /\ last'.currency # Home
          /\ PickCashBatchFor(cashBatches, activeTripId, last'.date,
                              last'.currency) = NoBatch
    /\ \A e \in expenses' \ expenses :
          (e.method = "cash" /\ e.currency # Home) =>
             /\ last'.outcome = "ok"
             /\ PickCashBatchFor(cashBatches, activeTripId, e.date,
                                 e.currency) # NoBatch
    /\ \A e \in expenses' :
          e.method = "cash" =>
             e.fxSource # "pending" /\ e.baseAmountCents # Null

C13_CashNeverDeferred == [][C13_Step]_vars

\* Offline, the edit of a stored expense to cash in a currency with no
\* batch was refused and the expense is still there, not pending.
C13_Witness ==
    /\ ~online
    /\ last.op = "updateExpense"
    /\ last.outcome = "No cash batch found"
    /\ last.currency = "EUR"
    /\ \E e \in expenses : e.id = last.id /\ e.fxSource # "pending"

\* C14: for a credit expense in a currency other than the home currency
\* for which getOrFetchRate finds no rate: offline, addExpense stores the
\* expense with fxSource pending and null baseAmountCents and fxRatePpm;
\* online, it makes one more fetch and one more look at the cached rows,
\* and when both fail it raises an error and stores no expense.
C14_Step ==
    last'.op = "addExpense" =>
       /\ \A e \in expenses' \ expenses :
             /\ e.id = last'.id
             /\ IF ~online /\ GetOrFetchRate(fxRates, e.date, e.currency,
                                             NetError).result = NoRate
                THEN /\ e.fxSource = "pending"
                     /\ e.baseAmountCents = Null
                     /\ e.fxRatePpm = Null
                ELSE /\ e.fxSource # "pending"
                     /\ e.baseAmountCents # Null
                     /\ e.fxRatePpm # Null
       /\ last'.outcome # "ok" =>
             /\ online
             /\ last'.outcome = "Unable to fetch FX rate"
             /\ last'.steps = <<"get", "fetch", "getAll", "fetch", "getAll">>
             /\ GetOrFetchRate(fxRates, last'.date, last'.currency,
                               NetError).result = NoRate
             /\ expenses' = expenses
             /\ usedIds' = usedIds
             /\ fxRates' = fxRates

C14_CreditNotFound == [][C14_Step]_vars

\* Online, an addExpense was refused after its two fetches and two looks
\* at the cache, while an expense added offline is stored pending.
C14_Witness ==
    /\ online
    /\ last.op = "addExpense"
    /\ last.outcome = "Unable to fetch FX rate"
    /\ Len(last.steps) = 5
    /\ last.id \notin usedIds
    /\ \E e \in expenses : /\ e.fxSource = "pending"
                           /\ e.baseAmountCents = Null
                           /\ e.fxRatePpm = Null

\* C15: every stored expense has a null baseAmountCents exactly when its
\* fxSource is pending, a null fxRatePpm exactly when its fxSource is
\* pending, an amountLocalCents, and an fxSource among identity,
\* frankfurter, cashBatch and pending.
C15_StoredExpenseShape ==
    \A e \in expenses :
       /\ (e.baseAmountCents = Null) <=> (e.fxSource = "pending")
       /\ (e.fxRatePpm = Null) <=> (e.fxSource = "pending")
       /\ e.amountLocalCents \in Nat
       /\ e.fxSource \in {"identity", "frankfurter", "cashBatch", "pending"}

\* A pending expense that a reconciliation pass has just given its rate,
\* source and base amount.
C15_Witness ==
    /\ last.op = "syncPendingExpenses"
    /\ last.outcome = "resolved"
    /\ \E e \in expenses : /\ e.fxSource = "frankfurter"
                           /\ e.fxRatePpm # Null
                           /\ e.baseAmountCents # Null

\* C16: in every reachable state, also after the trip's home currency
\* was changed and after reconciliation, an expense's cashBatchId is
\* non-null exactly when its method is cash and its currency is not its
\* trip's home currency.
C16_BatchIdIffForeignCash ==
    \A e \in expenses :
       (e.cashBatchId # Null) <=>
          (e.method = "cash"
           /\ e.currency # ToUpperCase(settings[e.tripId].homeCurrency))

\* C17: updateExpense runs the same derivation as addExpense: in the same
\* store, with the same settings, connectivity, provider answers and
\* field values, it derives the same amountLocalCents, baseAmountCents,
\* fxRatePpm, fxSource and cashBatchId, leaves the same cache and raises
\* an error in exactly the same cases, whatever the expense held before.
C17_SameDerivation ==
    \A d \in Dates, c \in LedgerCurrencies, m \in Methods, a \in Amounts :
       \A r1 \in FirstAnswers(d, c, m) :
          \A r2 \in SecondAnswers(d, c, r1) :
             UpdateExpenseDerive(d, c, m, a, r1, r2)
                = AddExpenseDerive(d, c, m, a, r1, r2)

\* An expense was edited online into a credit expense with a provider
\* rate and the fee.
C17_Witness ==
    /\ last.op = "updateExpense"
    /\ last.outcome = "ok"
    /\ online
    /\ Fee = DefaultFee
    /\ \E e \in expenses : /\ e.id = last.id
                           /\ e.fxSource = "frankfurter"
                           /\ e.baseAmountCents
                                 = Round(e.amountLocalCents
                                           * ApplyFeePpm(e.fxRatePpm, Fee), PPM)

\* C18: idempotent derivation: for any stored expense, updateExpense
\* called with the expense's own date, currency, method, categoryId and
\* amount leaves its baseAmountCents, fxRatePpm and fxSource unchanged.
\* The update is taken right after the call that derived the stored
\* values, so the cache before it is the one those values came from.
C18_Step ==
    \A e \in expenses, f \in expenses' :
       (/\ last.op \in {"addExpense", "updateExpense"}
        /\ last.outcome = "ok"
        /\ last.id = e.id
        /\ last'.op = "updateExpense"
        /\ last'.outcome = "ok"
        /\ last'.id = e.id
        /\ f.id = e.id
        /\ f.date = e.date
        /\ f.currency = e.currency
        /\ f.method = e.method
        /\ f.categoryId = e.categoryId
        /\ f.amountLocalCents = e.amountLocalCents) =>
          /\ f.baseAmountCents = e.baseAmountCents
          /\ f.fxRatePpm = e.fxRatePpm
          /\ f.fxSource = e.fxSource

C18_IdempotentDerivation == [][C18_Step]_vars

\* ------------------------------------------------ Reconciliation properties
\* The number of times a call occurs in a sequence of calls.
Count(seq, call) == Cardinality({i \in DOMAIN seq : seq[i] = call})

\* The active trip's expenses that a pass of syncPendingExpenses selects.
Selected == {e \in expenses : e.tripId = activeTripId /\ IsPending(e)}

\* C19: one pass of syncPendingExpenses treats each selected expense on
\* its own: with a rate, it stores fxRatePpm = the rate before the fee,
\* fxSource = the rate's source and baseAmountCents by addExpense's fee
\* rule (the fee unless the source is identity); when the lookup finds
\* nothing or a call throws, that expense stays exactly as it was and the
\* pass goes on with the remaining ones.
C19_Step ==
    last'.op = "syncPendingExpenses" =>
       /\ Count(last'.steps, "getOrFetchRate") = Cardinality(Selected)
       /\ {e.id : e \in expenses'} = {e.id : e \in expenses}
       /\ \A e \in expenses \ Selected : e \in expenses'
       /\ \A p \in Selected :
             \/ p \in expenses'
             \/ \E f \in expenses' :
                   /\ f = [p EXCEPT !.fxRatePpm = f.fxRatePpm,
                                    !.fxSource = f.fxSource,
                                    !.baseAmountCents = f.baseAmountCents]
                   /\ \/ /\ f.fxSource = "identity"
                         /\ f.currency = Home
                         /\ f.fxRatePpm = PPM
                         /\ f.baseAmountCents = Round(f.amountLocalCents * PPM, PPM)
                      \/ /\ f.fxSource = "frankfurter"
                         /\ \E d \in DOMAIN fxRates' :
                               fxRates'[d].rates[f.currency] = f.fxRatePpm
                         /\ f.baseAmountCents =
                               Round(f.amountLocalCents
                                       * ApplyFeePpm(f.fxRatePpm, Fee), PPM)
       /\ Count(last'.steps, "putExpense")
             = Cardinality({p \in Selected : p \notin expenses'})
       /\ \A p \in Selected :
             (GetOrFetchRate(fxRates, p.date, p.currency, NetError).result # NoRate
              /\ Count(last'.steps, "putExpenseFail") = 0) => p \notin expenses'

C19_SyncEachOnItsOwn == [][C19_Step]_vars

\* A pass whose first expense could not be stored and stayed pending and
\* whose second expense was resolved.
C19_Witness ==
    /\ last.op = "syncPendingExpenses"
    /\ last.outcome = "resolved"
    /\ Count(last.steps, "getOrFetchRate") = 2
    /\ Count(last.steps, "putExpenseFail") = 1
    /\ \E p, f \in expenses : /\ p.id < f.id
                              /\ p.fxSource = "pending"
                              /\ f.fxSource = "frankfurter"

\* Every non-cash expense of the active trip has a base amount and a
\* source other than pending.
AllResolved ==
    \A e \in expenses :
       (e.tripId = activeTripId /\ e.method # "cash") =>
          e.baseAmountCents # Null /\ e.fxSource # "pending"

\* C20: reconciliation runs once at startup if the device is connected
\* and again on every change from offline to online; with the connection
\* coming back (fairness), if the provider or the cache then gives a rate
\* for each pending expense, every pending non-cash expense of the active
\* trip eventually has a baseAmountCents and an fxSource other than
\* pending.
C20_Step ==
    /\ (~online /\ online') =>
          /\ last'.op = "syncPendingExpenses"
          /\ Count(last'.steps, "getOrFetchRate") = Cardinality(Selected)
    /\ last'.op = "startup" => ~online /\ expenses' = expenses
    /\ (online /\ online' /\ last'.op = "syncPendingExpenses") =>
          Count(last'.steps, "getOrFetchRate") = Cardinality(Selected)
    /\ last'.op = "syncPendingExpenses" =>
          /\ online'
          /\ last'.resp = "ok" => AllResolved'

C20_ReconciledWhenConnected ==
    /\ [][C20_Step]_vars
    /\ (~online /\ ~AllResolved)
          ~> (AllResolved \/ (last.op = "syncPendingExpenses" /\ last.resp = "failed"))

\* Connected again with the provider answering every request: the pass
\* has resolved two expenses that were pending.
C20_Witness ==
    /\ online
    /\ last.op = "syncPendingExpenses"
    /\ last.resp = "ok"
    /\ Count(last.steps, "putExpense") = 2
    /\ AllResolved

\* ------------------------------------------------ Concurrency properties
\* The passes of syncPendingExpenses that are suspended at an await.
Passes == {i \in DOMAIN inflight : inflight[i].op = "syncPendingExpenses"}

\* C21 (as claimed): syncPendingExpenses does not run concurrently with
\* itself: whenever the online event arrives while an earlier pass is
\* suspended at an await, no second pass is started, so at most one pass
\* is in flight in every reachable state.
C21_OnePassInFlight == Cardinality(Passes) <= 1

\* --------------------------------------------------- Redisplay properties
\* round(10^12 / ppm), from the quotient and remainder of 10^9 by ppm.
InversePpm(ppm) ==
    1000 * (1000000000 \div ppm) + Round(1000 * (1000000000 % ppm), ppm)

\* C22: convertBaseToTargetCents(baseCents, target, asOf) returns
\* baseCents unchanged when target is the home currency, without
\* resolving any rate (no provider call, no access to fxRates);
\* otherwise, the rate resolved being ppm, it returns
\* round(baseCents * round(10^12 / ppm) / 10^6).
C22_Step ==
    (last'.op = "convertBaseToTargetCents") =>
       IF last'.currency = Home
       THEN /\ last'.outcome = "ok"
            /\ last'.value = last'.base
            /\ last'.steps = <<>>
            /\ fxRates' = fxRates
       ELSE (last'.outcome = "ok") =>
               /\ last'.result # NoRate
               /\ last'.value =
                     Round(last'.base * InversePpm(last'.result.ppm), PPM)

C22_RedisplayInversion == [][C22_Step]_vars

\* CAD 10.00 redisplayed in USD at 1 USD = 1.35 CAD: inverse 740741,
\* USD 7.41.
C22_Witness ==
    /\ last.op = "convertBaseToTargetCents"
    /\ Home = "CAD"
    /\ last.currency = "USD"
    /\ last.base = 1000
    /\ last.result.ppm = 1350000
    /\ InversePpm(last.result.ppm) = 740741
    /\ last.value = 741

\* ---------------------------------------------------------- Page properties
\* The expenses a render with the end date in last lists.
Shown == {e \in expenses : /\ e.tripId = activeTripId
                           /\ (last.date = NoDate \/ e.date <= last.date)}

\* An amount of base cents as the page shows it, at the rate noted with
\* the total shown.
Redisplayed(baseCents, shown) ==
    IF last.currency = Home THEN baseCents
    ELSE Round(baseCents * InversePpm(shown.ppm), PPM)

\* The sum of the base amounts of some expenses, a pending one adding 0.
RECURSIVE SumOfSettled(_)
SumOfSettled(exps) ==
    IF exps = {} THEN 0
    ELSE LET e == CHOOSE x \in exps : TRUE
         IN (IF IsPending(e) THEN 0 ELSE e.baseAmountCents)
            + SumOfSettled(exps \ {e})

\* C23: in the per-category summary every group has one row, with the
\* number of the group's expenses (pending ones included) and the sum of
\* their baseAmountCents (a pending one adding 0); the grand total shown
\* is the sum of the rows' base totals redisplayed once, and that sum is
\* sumBaseCents of the expenses listed.
C23_SummaryTotals ==
    (last.op = "render" /\ last.page.rowsWritten) =>
       LET rows == last.page.rows
           grand == last.page.catGrandTotal
       IN /\ {rows[i].categoryId : i \in DOMAIN rows} = {e.categoryId : e \in Shown}
          /\ Len(rows) = Cardinality({e.categoryId : e \in Shown})
          /\ \A i \in DOMAIN rows :
                LET members == {e \in Shown : e.categoryId = rows[i].categoryId}
                IN /\ rows[i].count = Cardinality(members)
                   /\ rows[i].baseCents = SumOfSettled(members)
          /\ SumOfRows(rows) = SumBaseCents(Shown)
          /\ grand.kind = "amount" =>
                grand.cents = Redisplayed(SumOfRows(rows), grand)

\* Two groups of one settled expense each, shown in USD: the grand total
\* is not the sum of the two totals shown.
C23_Witness ==
    /\ last.op = "render"
    /\ last.currency = "USD"
    /\ Len(last.page.rows) = 2
    /\ \A i \in 1..2 : last.page.rows[i].baseCents > 0
    /\ last.page.catGrandTotal.kind = "amount"
    /\ last.page.catGrandTotal.cents # SumOfDisplayed(last.page.rows)
    /\ last.page.catGrandTotal.cents =
          Redisplayed(SumBaseCents(Shown), last.page.catGrandTotal)

\* C24 (as claimed): when convertBaseToTargetCents cannot resolve a rate
\* for the display currency, render still runs to completion for any
\* non-empty set of expenses: no exception leaves render, every total
\* that failed shows the error message, and the summary rows, the grand
\* total field and the category management table are written.
C24_RenderCompletes ==
    (last.op = "render" /\ Shown # {}) =>
       /\ last.outcome = "ok"
       /\ last.page.summaryOutput.kind \in {"amount", "error"}
       /\ last.page.rowsWritten
       /\ last.page.catGrandTotal.kind \in {"amount", "error"}
       /\ last.page.categoriesTbody

\* C25: aggregation and redisplay never re-derive a past conversion:
\* render (with sumBaseCents and renderCategorySummary) and
\* convertBaseToTargetCents leave every stored expense as it is,
\* whatever the display currency and the date filter, and saving the
\* settings with another ccFeePercent or homeCurrency leaves every
\* stored expense's baseAmountCents, fxRatePpm and fxSource as they are.
C25_Step ==
    /\ (last'.op \in {"render", "convertBaseToTargetCents"}) => expenses' = expenses
    /\ (last'.op = "saveSettings") =>
          /\ {e.id : e \in expenses'} = {e.id : e \in expenses}
          /\ \A e \in expenses, f \in expenses' :
                f.id = e.id => /\ f.baseAmountCents = e.baseAmountCents
                               /\ f.fxRatePpm = e.fxRatePpm
                               /\ f.fxSource = e.fxSource

C25_NoRederivation == [][C25_Step]_vars

\* The page shown in USD after the fee was set to 0: the expense stored
\* under the fee of 2.5 % still has the base amount it was given then.
C25_Witness ==
    /\ last.op = "render"
    /\ last.currency = "USD"
    /\ last.outcome = "ok"
    /\ Fee = 0
    /\ \E e \in expenses :
          /\ e.fxSource = "frankfurter"
          /\ e.baseAmountCents =
                Round(e.amountLocalCents * ApplyFeePpm(e.fxRatePpm, DefaultFee), PPM)
          /\ e.baseAmountCents # Round(e.amountLocalCents * e.fxRatePpm, PPM)
          /\ last.page.catGrandTotal.kind = "amount"
          /\ last.page.rows[1].baseCents = e.baseAmountCents

\* ------------------------------------------------ Home currency properties
\* C26 (as claimed): every rate getOrFetchRate returns, from the cache,
\* from a fetch or from the fallback, is the value in ppm of one unit of
\* the currency asked for in the home currency the active trip has at the
\* call (one of the provider's quotes for that pair, or 1,000,000 for the
\* home currency itself); a value cached under another home currency is
\* never returned.
C26_RateInHomeCurrency ==
    (last.op = "getOrFetchRate" /\ last.result # NoRate) =>
       IF last.currency = Home THEN last.result = Identity
       ELSE \E d \in 1..MaxRateDate :
               last.result.ppm = RateToPpm(ProviderRate(d, last.currency, Home))

\* ---------------------------------------------------- Category properties
\* The categories of the active trip other than id whose name is the
\* given one up to letter case.
Namesakes(id, name) ==
    {c \in categories : /\ c.tripId = activeTripId
                        /\ c.id # id
                        /\ ToLowerCase(c.name) = ToLowerCase(name)}

\* C27: renameCategory(id, newName) fails with an error and changes no
\* category when newName is, up to letter case, the name of another
\* category of the same trip; renaming a category to its own name in
\* another letter case succeeds.
C27_Step ==
    (last'.op = "renameCategory" /\ Trim(last'.name) # "") =>
       LET id == last'.id
           name == Trim(last'.name)
       IN /\ Namesakes(id, name) # {} =>
                /\ last'.outcome = "A category with that name already exists."
                /\ categories' = categories
          /\ (/\ Namesakes(id, name) = {}
              /\ \E c \in categories : /\ c.id = id
                                        /\ c.name # name
                                        /\ ToLowerCase(c.name) = ToLowerCase(name)) =>
                /\ last'.outcome = "ok"
                /\ \E c \in categories' : c.id = id /\ c.name = name
                /\ {c \in categories' : c.id # id} = {c \in categories : c.id # id}

C27_RenameRefusesNamesake == [][C27_Step]_vars

\* 'Taxi' could not be renamed 'meals' in a trip whose 'Meals' had been
\* renamed 'MEALS'.
C27_Witness ==
    /\ last.op = "renameCategory"
    /\ last.name = "meals"
    /\ last.outcome = "A category with that name already exists."
    /\ \E c \in categories : /\ c.id = last.id
                              /\ c.tripId = activeTripId
                              /\ c.name = "Taxi"
    /\ \E c \in categories : /\ c.id # last.id
                              /\ c.tripId = activeTripId
                              /\ c.name = "MEALS"

\* C28 (as claimed): in every reachable state no two categories of a trip
\* have names that are equal up to letter case, whatever trips are
\* created and categories added, renamed and deleted, two requests
\* issued one right after the other included.
C28_NamesUnique ==
    \A c \in categories, d \in categories :
       (c.tripId = d.tripId /\ c.id # d.id) =>
          ToLowerCase(c.name) # ToLowerCase(d.name)

\* C29: a category is deleted only when no expense references it: the
\* delete action removes an unused category as it is, and a used one
\* only after every expense naming it was given another category that
\* the trip has; after a deletion no stored expense names the deleted
\* category, and nothing else about the expenses has changed.
C29_Step ==
    (last'.op = "deleteCategory" /\ categories' # categories) =>
       LET id == last'.id
           naming == {e \in expenses : e.categoryId = id}
       IN /\ categories' = {c \in categories : c.id # id}
          /\ \A e \in expenses' : e.categoryId # id
          /\ naming = {} => expenses' = expenses
          /\ naming # {} => \E t \in categories' :
                /\ t.tripId = activeTripId
                /\ expenses' = {IF e \in naming THEN [e EXCEPT !.categoryId = t.id]
                                ELSE e : e \in expenses}

C29_DeleteOnlyUnreferenced == [][C29_Step]_vars

\* 'Meals' deleted after its expense was reassigned to 'Taxi'.
C29_Witness ==
    /\ last.op = "deleteCategory"
    /\ last.outcome = "reassigned"
    /\ \A c \in categories : c.id # last.id
    /\ \E e \in expenses, c \in categories :
          /\ e.tripId = activeTripId
          /\ e.categoryId = c.id
          /\ c.name = "Taxi"
          /\ c.tripId = activeTripId

\* ---------------------------------------------------- Settings properties
UpperLetters ==
    {"A", "B", "C", "D", "E", "F", "G", "H", "I", "J", "K", "L", "M", "N",
     "O", "P", "Q", "R", "S", "T", "U", "V", "W", "X", "Y", "Z"}

\* A normalized currency code: three upper case letters.
IsCode(s) == Len(s) = 3 /\ \E a, b, c \in UpperLetters : s = a \o b \o c

\* C30: whatever record is stored (none, one with the legacy tripCurrency,
\* one with an empty tripCurrencies list or an empty homeCurrency, one the
\* settings form saved), the settings that loadSettings returns have a
\* homeCurrency and tripCurrencies that are three-letter upper case
\* codes, a tripCurrencies list that is not empty ([homeCurrency] when
\* the stored list has no entry), and ccFeePercent 2.5 when none is
\* stored.
C30_LoadedSettingsNormalized ==
    last.op \in {"loadSettings", "normalizeSettings"} =>
       LET s == last.loaded
           raw == last.raw
       IN /\ IsCode(s.homeCurrency)
          /\ s.tripCurrencies # <<>>
          /\ \A i \in 1..Len(s.tripCurrencies) : IsCode(s.tripCurrencies[i])
          /\ ("tripCurrencies" \in DOMAIN raw /\ raw.tripCurrencies = <<>>) =>
                s.tripCurrencies = <<s.homeCurrency>>
          /\ "ccFeePercent" \notin DOMAIN raw => s.ccFeePercent = DefaultFee

\* ------------------------------------------------------- Cache properties
\* The cached (date, currency) entries.
Entries(fx) == {<<d, c>> \in (DOMAIN fx) \X Currencies : fx[d].rates[c] # 0}

\* C31 as stated: no step other than a backup import in wipe mode takes
\* an fxRates row, or a currency of a row, away.
C31_OnlyWipeRemoves ==
    [][(last'.op = "importBackup" /\ last'.outcome = "wipe")
          \/ Entries(fxRates) \subseteq Entries(fxRates')]_vars

\* C31, amended: no step other than a backup import takes an fxRates
\* row, or a currency of a row, away: across expense add, update and
\* delete, reconciliation, rendering, settings changes and trip deletion
\* the set of cached (date, currency) entries only grows.
C31_Step ==
    last'.op # "importBackup" => Entries(fxRates) \subseteq Entries(fxRates')

C31_AppendOnly == [][C31_Step]_vars

\* A trip deleted while rates of two currencies are cached for one day.
C31_Witness ==
    /\ last.op = "deleteTrip"
    /\ last.outcome = "deleted"
    /\ \E d \in DOMAIN fxRates : fxRates[d].rates["EUR"] # 0 /\ fxRates[d].rates["USD"] # 0

\* ------------------------------------------------------- Input properties
\* C32: createTrip and renameTrip with an empty or blank name,
\* renameCategory and the category add with an empty name, and addExpense
\* and updateExpense with an amount that is not a number each report an
\* error and leave every collection of the store as it was.
C32_Step ==
    LET emptyName == /\ last'.op \in {"createTripCall", "renameTrip",
                                        "addCategory", "renameCategory"}
                     /\ Trim(last'.name) = ""
        notNumber == /\ last'.op \in {"addExpense", "updateExpense"}
                     /\ last'.amount = NaN
    IN (emptyName \/ notNumber) =>
          /\ last'.outcome # "ok"
          /\ UNCHANGED <<trips, tripNames, settings, categories, cashBatches,
                         fxRates, expenses>>

C32_InputErrorsWriteNothing == [][C32_Step]_vars

\* -------------------------------------------------------- Trip properties
\* The records of a store that belong to the trips other than T.
OfOthers(store, T) == {x \in store : x.tripId # T}

\* C33: deleting trip T removes the trip, its settings record and every
\* expense, category and cash batch whose tripId is T, and leaves the
\* trips, settings, expenses, categories and cash batches of every other
\* trip and every fxRates row as they were; saving the active trip's
\* settings changes no other trip's settings.
C33_Step ==
    /\ (last'.op = "deleteTrip" /\ last'.outcome = "deleted") =>
          LET T == last'.id
          IN /\ T \in trips
             /\ trips' = trips \ {T}
             /\ DOMAIN settings' = (DOMAIN settings) \ {T}
             /\ DOMAIN tripNames' = (DOMAIN tripNames) \ {T}
             /\ \A t \in trips' : /\ settings'[t] = settings[t]
                                  /\ tripNames'[t] = tripNames[t]
             /\ expenses' = OfOthers(expenses, T)
             /\ categories' = OfOthers(categories, T)
             /\ cashBatches' = OfOthers(cashBatches, T)
             /\ fxRates' = fxRates
    /\ last'.op = "saveSettings" =>
          /\ DOMAIN settings' = DOMAIN settings
          /\ \A t \in (DOMAIN settings) \ {activeTripId} : settings'[t] = settings[t]

C33_PartitionedByTrip == [][C33_Step]_vars

\* A trip deleted with an expense of its own while the other trip keeps
\* a cash batch and an expense, and rates are cached.
C33_Witness ==
    /\ last.op = "deleteTrip"
    /\ last.outcome = "deleted"
    /\ \E id \in usedIds : \A e \in expenses : e.id # id
    /\ cashBatches # {}
    /\ expenses # {}
    /\ DOMAIN fxRates # {}

\* ------------------------------------------------------------- C34
\* The fields syncPendingExpenses may rewrite are fxRatePpm, fxSource
\* and baseAmountCents.
SameButDerivation(x, y) ==
    y = [x EXCEPT !.fxRatePpm = y.fxRatePpm, !.fxSource = y.fxSource,
                  !.baseAmountCents = y.baseAmountCents]

\* An expense that a pass has no business with: paid in cash, of a trip
\* other than the active one, or already resolved.
NotForSync(x) ==
    \/ x.method = "cash"
    \/ x.tripId # activeTripId
    \/ (x.fxRatePpm # Null /\ x.baseAmountCents # Null /\ x.fxSource # "pending")

C34_Step ==
    last'.op \in {"syncIteration", "syncPendingExpenses"} =>
       /\ \A x \in expenses : NotForSync(x) => x \in expenses'
       /\ \A y \in expenses' \ expenses :
             \A x \in expenses : x.id = y.id => SameButDerivation(x, y)

\* C34: a step of syncPendingExpenses leaves every stored expense that
\* is paid in cash, belongs to a trip other than the active one or is
\* already resolved as it is, and of a stored expense that it rewrites it
\* changes fxRatePpm, fxSource and baseAmountCents only.
C34_SyncChangesOnlyItsOwn == [][C34_Step]_vars

\* ------------------------------------------------------------- C35
C35_Step ==
    \A id \in usedIds :
       (\A e \in expenses : e.id # id) => (\A e \in expenses' : e.id # id)

\* C35: the id of an expense that was stored and has been deleted is the
\* id of no expense stored by any later step, a pass of
\* syncPendingExpenses that read the expense before the deletion
\* included.
C35_DeletionIsPermanent == [][C35_Step]_vars

\* ------------------------------------------------------------- C36
C36_Step ==
    last'.op = "syncIteration" =>
       \A x \in expenses :
          x.id = last'.id =>
             \/ x \in expenses'
             \/ /\ last'.result # NoRate
                /\ SyncOne(x, last'.result) \in expenses'

\* C36: when a pass of syncPendingExpenses reaches an expense that
\* updateExpense has rewritten since the pass read it, the stored record
\* afterwards still has the date, currency, method, categoryId and
\* amountLocalCents that updateExpense stored, and its baseAmountCents,
\* fxRatePpm and fxSource are the ones updateExpense derived or the
\* pass's derivation from the stored fields.
C36_NoLostUpdate == [][C36_Step]_vars

\* ------------------------------------------------------------- C37
\* C37: every stored expense with a cashBatchId refers to a stored cash
\* batch of the expense's own trip.
C37_BatchOfOwnTrip ==
    \A e \in expenses :
       e.cashBatchId # Null =>
          \E b \in cashBatches : b.id = e.cashBatchId /\ b.tripId = e.tripId

\* ------------------------------------------------------------- C38
\* C38: at least one trip is stored, and the active trip is a stored
\* trip with a settings record.
C38_ActiveTripExists ==
    /\ trips # {}
    /\ activeTripId \in trips
    /\ activeTripId \in DOMAIN settings

\* ------------------------------------------------------------- C39
C39_Step ==
    (last'.op = "updateExpense" /\ last'.outcome # "ok") => expenses' = expenses

\* C39: a call of updateExpense that ends with an error (expense not
\* found, no cash batch for a cash expense, no rate obtainable while
\* connected) leaves every stored expense record as it was.
C39_FailedEditWritesNothing == [][C39_Step]_vars

C39_Witness ==
    /\ last.op = "updateExpense"
    /\ last.outcome \in {"No cash batch found", "Unable to fetch FX rate"}
    /\ \E e \in expenses :
          /\ e.id = last.id
          /\ (e.date # last.date \/ e.currency # last.currency)
          /\ e.baseAmountCents # Null


====
